---- MODULE Spec2Model ----
(***************************************************************************)
(* Model of the MF-Plugin scheduler: the Petri net built by                *)
(* PetriNetGenerator, the token game of PetriNetLogic and the callback     *)
(* handlers of Scheduler.                                                  *)
(***************************************************************************)
EXTENDS Integers, Sequences, FiniteSets, TLC

\* ------------------------------------------------------------------ bounds
MaxPickup == 2
MaxDelivery == 2
MaxTime == 1
MaxIter == 3
MaxTimers == 2

\* ------------------------------------------------------------------ values
\* Python values are tagged: comparing a number with a string is a TypeError.
Num(n) == [t |-> "num", n |-> n]
Str(n) == [t |-> "str", n |-> n]
Bool(b) == [t |-> "bool", n |-> IF b THEN 1 ELSE 0]
TypeErr == [t |-> "TypeError", n |-> 0]

\* ------------------------------------------------------------------ expressions
NoExpr == [k |-> "none", op |-> "", path |-> <<>>, v |-> Num(0)]
\* the expression  I.weight > 50
WeightExpr == [k |-> "bin", op |-> ">", path |-> <<"I", "weight">>, v |-> Num(50)]
\* the expression  T1.value
TimeExpr == [k |-> "attr", op |-> "", path |-> <<"T1", "value">>, v |-> Num(0)]

\* ------------------------------------------------------------------ process model
\* A statement of a task.
TransportStmt(pickup, delivery) ==
    [kind |-> "transport", pickup |-> pickup, delivery |-> delivery, step |-> <<>>, name |-> ""]
MoveStmt(step) ==
    [kind |-> "move", pickup |-> <<>>, delivery |-> <<>>, step |-> step, name |-> ""]
ActionStmt(step) ==
    [kind |-> "action", pickup |-> <<>>, delivery |-> <<>>, step |-> step, name |-> ""]
CallStmt(name) ==
    [kind |-> "call", pickup |-> <<>>, delivery |-> <<>>, step |-> <<>>, name |-> name]
\* a counting loop: its statements are repeated c.iters times
LoopStmt(body) ==
    [kind |-> "loop", pickup |-> <<>>, delivery |-> <<>>, step |-> <<>>, name |-> "",
     body |-> body]

OrderStep(name, started_by_expr, finished_by_expr, follow_up_task_name) ==
    [name |-> name, started_by_expr |-> started_by_expr,
     finished_by_expr |-> finished_by_expr, follow_up_task_name |-> follow_up_task_name]

Task(name, statements, started_by_expr, finished_by_expr) ==
    [name |-> name, statements |-> statements, started_by_expr |-> started_by_expr,
     finished_by_expr |-> finished_by_expr]

\* names of the order steps: <<"p", i>> pickup, <<"d", i>> delivery, <<"m", i>> move, <<"a", i>> action
StepNames(c, n) == [i \in 1..n |-> <<c, i>>]


\* ------------------------------------------------------------------ the processes checked
\* A configuration selects one process:
\*   shape    "transport": productionTask = Transport From p1..pN To d1..dM
\*            "two":       productionTask = two sequential transport orders
\*            "call":      productionTask = call of task G; G = Move m1
\*            "move":      productionTask = Move m1
\*            "action":    productionTask = Action a1
\*   fu       which order step declares the follow-up task F ("none", "pickup",
\*            "delivery", "step")
\*   gate     which construct is gated by WeightExpr ("none", "task_start",
\*            "task_finish", "step_start", "step_finish")
\*   w0       the initial weight of instance I
\*   test_ids the scheduler's generate_test_ids flag
\*   iters    the number of iterations of the loop, in the processes with a loop
\*   timers   the number of Time instances of the process
Config(shape, N, M, fu, gate, w0, test_ids) ==
    [shape |-> shape, N |-> N, M |-> M, fu |-> fu, gate |-> gate, w0 |-> w0,
     test_ids |-> test_ids, iters |-> 0, timers |-> 0]

Configs ==
    {Config("transport", n, m, "none", "none", 10, ids) :
        n \in 1..MaxPickup, m \in 1..MaxDelivery, ids \in BOOLEAN}
    \cup {Config("transport", n, m, fu, "none", 10, TRUE) :
        n \in 1..MaxPickup, m \in 1..MaxDelivery, fu \in {"pickup", "delivery"}}
    \cup {Config("transport", 1, 1, "none", g, w, TRUE) :
        g \in {"step_start", "step_finish"}, w \in {10, 60}}
    \cup {Config("two", 1, 1, "none", "none", 10, TRUE)}
    \cup {Config("call", 0, 0, "none", g, w, TRUE) :
        g \in {"none", "task_start", "task_finish"}, w \in {10, 60}}
    \cup {Config(s, 0, 0, fu, g, 10, TRUE) :
        s \in {"move", "action"}, fu \in {"none", "step"},
        g \in {"none", "step_start", "step_finish"}}

\* The gated processes above, and those in which a gate and a second activation
\* meet:
\*   shape    "call_transport": productionTask = call of task G;
\*                              G = Transport From p1 To d1..dM
\*   gate     "second_start":   the pickup step p2 is StartedBy WeightExpr (with
\*                              fu "pickup": p1 declares the follow-up task F)
GateConfigs ==
    {c \in Configs : c.gate # "none" /\ c.fu = "none" /\ c.shape # "action"}
    \cup {Config("transport", 2, 1, "pickup", "second_start", w, TRUE) : w \in {10, 60}}
    \cup {Config("call_transport", 1, MaxDelivery, "none", g, 10, TRUE) :
            g \in {"none", "task_start", "task_finish"}}
    \cup {Config("call_transport", 1, MaxDelivery, "none", "task_finish", 60, TRUE)}

\* The processes with a loop: productionTask = Loop iters times { body }
\*   shape    "loop_transport": body = Transport From p1 To d1
\*            "loop_same":      body = two transport orders, both From p1 To d1
\*            "loop_move":      body = Move m1
\*            "loop_action":    body = Action a1
LoopShapes == {"loop_transport", "loop_same", "loop_move", "loop_action"}
LoopConfig(shape, iters, test_ids) ==
    [Config(shape, 1, 1, "none", "none", 10, test_ids) EXCEPT !.iters = iters]
LoopConfigs ==
    {LoopConfig(s, n, ids) : s \in LoopShapes, n \in 2..MaxIter, ids \in BOOLEAN}

\* The processes with Time instances T1, T2, ..: productionTask = Move m1, where
\* m1 is StartedBy T1.value (gate "step_start"), FinishedBy T1.value (gate
\* "step_finish") or not gated
TimerName(i) == CASE i = 1 -> "T1" [] i = 2 -> "T2" [] i = 3 -> "T3" [] OTHER -> "T4"
TimerNames(c) == {TimerName(i) : i \in 1..c.timers}
TimerConfig(n, gate, test_ids) ==
    [Config("timer", 0, 0, "none", gate, 10, test_ids) EXCEPT !.timers = n]
TimerConfigs ==
    {TimerConfig(n, g, TRUE) :
        n \in 1..MaxTimers, g \in {"none", "step_start", "step_finish"}}
\* the expression of the gates of the process
GateExpr(c) == IF c.timers > 0 THEN TimeExpr ELSE WeightExpr

\* The processes with rules: productionTask = Move m1, the instances I and J with
\* the weights w0 and 70 - w0, and the rules of RuleTable
\*   shape    "rules_str":  a parameter name in a rule body is stored as a str
\*            "rules_list": it is stored as an attribute access of one name
RuleShapes == {"rules_str", "rules_list"}
RuleConfigs ==
    {Config(s, 0, 0, "none", "none", w, TRUE) : s \in RuleShapes, w \in {10, 60}}

\* the order step definitions of the process (process.transport_order_steps,
\* move_order_steps, action_order_steps), by name
StepOf(c, name) ==
    LET first == name[2] = 1
        own == name[1] \in {"p", "d", "m", "a"}
        sgate == IF \/ c.gate = "step_start" /\ first /\ name[1] \in {"d", "m", "a"}
                    \/ c.gate = "second_start" /\ name = <<"p", 2>>
                 THEN GateExpr(c) ELSE NoExpr
        fgate == IF c.gate = "step_finish" /\ first /\ name[1] \in {"d", "m", "a"}
                 THEN GateExpr(c) ELSE NoExpr
        fu == IF /\ first
                 /\ \/ c.fu = "pickup" /\ name[1] = "p"
                    \/ c.fu = "delivery" /\ name[1] = "d"
                    \/ c.fu = "step" /\ name[1] \in {"m", "a"}
              THEN "F" ELSE ""
    IN  IF own THEN OrderStep(name, sgate, fgate, fu)
        ELSE OrderStep(name, NoExpr, NoExpr, "")

\* the tasks of the process (process.tasks), by name
TaskOf(c, name) ==
    CASE name = "productionTask" ->
            Task(name,
                 CASE c.shape = "transport" ->
                        <<TransportStmt(StepNames("p", c.N), StepNames("d", c.M))>>
                   [] c.shape = "two" ->
                        <<TransportStmt(<<(<<"p", 1>>)>>, <<(<<"d", 1>>)>>),
                          TransportStmt(<<(<<"p", 2>>)>>, <<(<<"d", 2>>)>>)>>
                   [] c.shape = "call" -> <<CallStmt("G")>>
                   [] c.shape = "call_transport" -> <<CallStmt("G")>>
                   [] c.shape = "move" -> <<MoveStmt(<<"m", 1>>)>>
                   [] c.shape = "action" -> <<ActionStmt(<<"a", 1>>)>>
                   [] c.shape \in RuleShapes -> <<MoveStmt(<<"m", 1>>)>>
                   [] c.shape = "timer" -> <<MoveStmt(<<"m", 1>>)>>
                   [] c.shape = "loop_transport" ->
                        <<LoopStmt(<<TransportStmt(<<(<<"p", 1>>)>>, <<(<<"d", 1>>)>>)>>)>>
                   [] c.shape = "loop_same" ->
                        <<LoopStmt(<<TransportStmt(<<(<<"p", 1>>)>>, <<(<<"d", 1>>)>>),
                                     TransportStmt(<<(<<"p", 1>>)>>, <<(<<"d", 1>>)>>)>>)>>
                   [] c.shape = "loop_move" -> <<LoopStmt(<<MoveStmt(<<"m", 1>>)>>)>>
                   [] c.shape = "loop_action" -> <<LoopStmt(<<ActionStmt(<<"a", 1>>)>>)>>,
                 NoExpr, NoExpr)
      [] name = "G" ->
            Task(name,
                 IF c.shape = "call_transport"
                 THEN <<TransportStmt(StepNames("p", c.N), StepNames("d", c.M))>>
                 ELSE <<MoveStmt(<<"m", 1>>)>>,
                 IF c.gate = "task_start" THEN WeightExpr ELSE NoExpr,
                 IF c.gate = "task_finish" THEN WeightExpr ELSE NoExpr)
      [] name = "F" ->
            Task(name, <<ActionStmt(<<"f", 1>>)>>, NoExpr, NoExpr)

\* process.instances: one instance I of a struct with the attribute weight (and
\* the standard attributes id and time) in the gated processes, none otherwise
HasInstance(c) == c.gate # "none"


\* ------------------------------------------------------------------ ids
\* str(uuid.uuid4()): a fresh value;  str(counter): the counter's value as text.
\* Two test ids made from equal counter values are the same string.
Uuid(n) == [k |-> "uuid", n |-> n]
TestId(n) == [k |-> "test", n |-> n]

\* ------------------------------------------------------------------ the generator's state
\* Nodes of the net are named <<label, kind, index>>: the label create_place /
\* create_transition is given, and the API object (task, order or order step, by
\* its position in task_apis / orders / order_steps) the node is created for.
NoPlace == <<"", "", 0>>

\* uuids_per_task[task uuid]: the keys "started_by" / "finished_by" when set, and
\* one entry per order-step uuid
UptEmpty == [keys |-> {}, started_by |-> NoPlace, finished_by |-> NoPlace, steps |-> <<>>]

Put(f, k, v) == [x \in (DOMAIN f) \cup {k} |-> IF x = k THEN v ELSE f[x]]
Drop(f, k) == [x \in (DOMAIN f) \ {k} |-> f[x]]

EmptyGenerator(c) ==
    [trans |-> <<>>, places |-> {}, inp |-> {}, out |-> {}, cbs |-> <<>>,
     task_apis |-> <<>>, orders |-> <<>>, order_steps |-> <<>>,
     uuids_per_task |-> <<>>,
     order_step_test_id_counter |-> IF c.test_ids THEN 0 ELSE -1,
     uuid_ctr |-> 0, conn |-> 0]

\* TLC evaluates operator arguments by need; Strict(g, e) evaluates the
\* generator state g before e, which keeps the evaluation of a long chain of
\* generator calls shallow
Strict(g, e) == IF g.conn >= 0 THEN e ELSE g

\* Let(v, LAMBDA x : e) is e with x standing for the value v
Let(v, F(_)) == F(v)

create_place(g, p) == [g EXCEPT !.places = @ \cup {p}]
create_transition(g, t) == [g EXCEPT !.trans = Append(@, t)]
\* net.add_input(place, transition): arc place -> transition
add_input(g, p, t) == [g EXCEPT !.inp = @ \cup {<<p, t>>}]
\* net.add_output(place, transition): arc transition -> place
add_output(g, p, t) == [g EXCEPT !.out = @ \cup {<<p, t>>}]
\* callbacks are kept per transition in registration order
add_callback(g, t, fn, task, order, step) ==
    [g EXCEPT !.cbs = Append(@, [t |-> t, fn |-> fn, task |-> task, order |-> order,
                                 step |-> step])]

\* TaskAPI(task, parent, in_loop): a new uuid4
NewTaskAPI(g, name, parent, in_loop, uuid) ==
    [g EXCEPT !.task_apis = Append(@, [task |-> name, task_context |-> parent,
                                       in_loop |-> in_loop, uuid |-> uuid]),
              !.uuid_ctr = @ + 1]
\* OrderAPI(order, task_context, in_loop): a new uuid4, first_loop_iteration = in_loop
NewOrderAPI(g, stmt, ti, in_loop) ==
    [g EXCEPT !.orders = Append(@, [order |-> stmt, task_context |-> ti,
                                    in_loop |-> in_loop, uuid |-> Uuid(g.uuid_ctr),
                                    first_loop_iteration |-> in_loop]),
              !.uuid_ctr = @ + 1]
\* OrderStepAPI(order_step, order_context), then the test id when the counter runs
NewOrderStepAPI(g, name, oi) ==
    LET test == g.order_step_test_id_counter # -1
        id == IF test THEN TestId(g.order_step_test_id_counter) ELSE Uuid(g.uuid_ctr)
    IN  [g EXCEPT !.order_steps = Append(@, [order_step |-> name, order_context |-> oi,
                                             uuid |-> id]),
                  !.uuid_ctr = @ + 1,
                  !.order_step_test_id_counter = IF test THEN @ + 1 ELSE @]

\* self.uuids_per_task[task uuid][step uuid] = entry
SetStepEntry(g, ti, si, entry) ==
    LET tu == g.task_apis[ti].uuid
        su == g.order_steps[si].uuid
    IN  [g EXCEPT !.uuids_per_task[tu].steps = Put(@, su, entry)]


\* ------------------------------------------------------------------ gate gadgets
\* as generate_started_by, without the arc from the "StartedBy satisfied" place
\* to the gate's transition
generate_started_by_no_guard(g, start_place_or_transition, kind, idx, generate_for_task) ==
    Strict(g,
    LET waiting_for_started_by == <<"Waiting for StartedBy", kind, idx>>
        started_by == <<"StartedBy satisfied", kind, idx>>
        start_transition == <<"StartedBy transition", kind, idx>>
        g1 == create_transition(
                 create_place(create_place(g, waiting_for_started_by), started_by),
                 start_transition)
        g2 == add_input(g1, waiting_for_started_by, start_transition)
        g3 == IF generate_for_task
              THEN add_output(g2, waiting_for_started_by, start_place_or_transition)
              ELSE add_output(g2, start_place_or_transition, start_transition)
    IN  [g |-> g3, started_by |-> started_by,
         start_place_or_transition |->
            IF generate_for_task THEN start_place_or_transition
            ELSE waiting_for_started_by,
         start_transition |-> start_transition])

generate_started_by(g, start_place_or_transition, kind, idx, generate_for_task) ==
    Strict(g,
    LET waiting_for_started_by == <<"Waiting for StartedBy", kind, idx>>
        started_by == <<"StartedBy satisfied", kind, idx>>
        start_transition == <<"StartedBy transition", kind, idx>>
        g1 == create_transition(
                 create_place(create_place(g, waiting_for_started_by), started_by),
                 start_transition)
        g2 == add_input(add_input(g1, started_by, start_transition),
                        waiting_for_started_by, start_transition)
        g3 == IF generate_for_task
              THEN add_output(g2, waiting_for_started_by, start_place_or_transition)
              ELSE add_output(g2, start_place_or_transition, start_transition)
    IN  [g |-> g3, started_by |-> started_by,
         start_place_or_transition |->
            IF generate_for_task THEN start_place_or_transition
            ELSE waiting_for_started_by,
         start_transition |-> start_transition])

generate_finished_by_for_task(g, transition_before_finished_by, finished_by_transition, idx) ==
    Strict(g,
    LET waiting_for_finished_by == <<"Waiting for FinishedBy", "task", idx>>
        finished_by == <<"FinishedBy satisfied", "task", idx>>
        g1 == create_place(create_place(g, waiting_for_finished_by), finished_by)
        g2 == add_input(g1, finished_by, finished_by_transition)
        g3 == add_input(g2, waiting_for_finished_by, finished_by_transition)
        g4 == add_output(g3, waiting_for_finished_by, transition_before_finished_by)
    IN  [g |-> g4, waiting_for_finished_by |-> waiting_for_finished_by,
         finished_by |-> finished_by])

generate_finished_by_for_order_step(g, transition_before_finished_by, place_after_finished_by, idx) ==
    Strict(g,
    LET waiting_for_finished_by == <<"Waiting for FinishedBy", "step", idx>>
        finished_by == <<"FinishedBy satisfied", "step", idx>>
        finished_by_transition == <<"FinishedBy transition", "step", idx>>
        g1 == create_transition(
                 create_place(create_place(g, waiting_for_finished_by), finished_by),
                 finished_by_transition)
        g2 == add_input(g1, finished_by, finished_by_transition)
        g3 == add_input(g2, waiting_for_finished_by, finished_by_transition)
        g4 == add_output(g3, waiting_for_finished_by, transition_before_finished_by)
        g5 == add_output(g4, place_after_finished_by, finished_by_transition)
    IN  [g |-> g5, finished_by |-> finished_by,
         finished_by_transition |-> finished_by_transition])

\* ------------------------------------------------------------------ order steps
\* the common tail of the three order-step generators: the StartedBy and
\* FinishedBy gadgets around the step, and the step's uuids_per_task entry
StepGates(c, g, si, ti, started, finished, last_transition, entry, waiting_cb) ==
    Strict(g,
    Let(StepOf(c, g.order_steps[si].order_step), LAMBDA os :
    Let(os.started_by_expr.k # "none", LAMBDA has_sb :
    Let(os.finished_by_expr.k # "none", LAMBDA has_fb :
    Let(generate_started_by(g, started, "step", si, FALSE), LAMBDA sb :
    Let(IF has_sb
        THEN add_callback(sb.g, sb.start_transition, waiting_cb, ti, 0, si)
        ELSE g, LAMBDA g1 :
    Let(generate_finished_by_for_order_step(g1, last_transition, finished, si), LAMBDA fb :
    Let(IF has_fb
        THEN add_callback(fb.g, last_transition, "finished_by", ti, 0, si)
        ELSE add_output(g1, finished, last_transition), LAMBDA g2 :
    Let([entry EXCEPT !.started_by = IF has_sb THEN sb.started_by ELSE NoPlace,
                      !.finished_by = IF has_fb THEN fb.finished_by ELSE NoPlace],
        LAMBDA e :
    [g |-> SetStepEntry(g2, ti, si, e),
     started |-> IF has_sb THEN sb.start_place_or_transition ELSE started,
     finished |-> finished,
     last_transition |-> IF has_fb THEN fb.finished_by_transition ELSE last_transition,
     has_follow_up_task |-> os.follow_up_task_name # ""])))))))))

\* as generate_transport_order_step, but the last transition does not take the
\* token of the "Waiting for action" place
generate_transport_order_step_no_wait(c, g, si, ti) ==
    Strict(g,
    LET tos_started == <<"started", "step", si>>
        tos_finished == <<"finished", "step", si>>
        first_transition == <<"first transition", "step", si>>
        moved_to_location == <<"Moved to", "step", si>>
        waiting_for_action == <<"Waiting for action", "step", si>>
        action_executed == <<"Action executed", "step", si>>
        last_transition == <<"last transition", "step", si>>
        g1 == create_place(
                 create_transition(
                    create_place(create_place(g, tos_started), tos_finished),
                    first_transition),
                 moved_to_location)
        g2 == add_input(add_input(g1, tos_started, first_transition),
                        moved_to_location, first_transition)
        g3 == add_callback(g2, first_transition, "moved_to_location", 0, 0, si)
        g4 == create_transition(
                 create_place(create_place(g3, waiting_for_action), action_executed),
                 last_transition)
        g5 == add_input(add_output(g4, waiting_for_action, first_transition),
                        action_executed, last_transition)
        g6 == add_callback(g5, first_transition, "waiting_for_action", ti, 0, si)
        g7 == add_callback(g6, last_transition, "action_executed", 0, 0, si)
    IN  StepGates(c, g7, si, ti, tos_started, tos_finished, last_transition,
                  [keys |-> {"moved_to_location", "action_executed", "started_by",
                             "finished_by"},
                   moved_to_location |-> moved_to_location,
                   action_executed |-> action_executed,
                   started_by |-> NoPlace, finished_by |-> NoPlace],
                  "waiting_for_move"))

generate_transport_order_step(c, g, si, ti) ==
    Strict(g,
    LET tos_started == <<"started", "step", si>>
        tos_finished == <<"finished", "step", si>>
        first_transition == <<"first transition", "step", si>>
        moved_to_location == <<"Moved to", "step", si>>
        waiting_for_action == <<"Waiting for action", "step", si>>
        action_executed == <<"Action executed", "step", si>>
        last_transition == <<"last transition", "step", si>>
        g1 == create_place(
                 create_transition(
                    create_place(create_place(g, tos_started), tos_finished),
                    first_transition),
                 moved_to_location)
        g2 == add_input(add_input(g1, tos_started, first_transition),
                        moved_to_location, first_transition)
        g3 == add_callback(g2, first_transition, "moved_to_location", 0, 0, si)
        g4 == create_transition(
                 create_place(create_place(g3, waiting_for_action), action_executed),
                 last_transition)
        g5 == add_input(
                 add_input(add_output(g4, waiting_for_action, first_transition),
                           waiting_for_action, last_transition),
                 action_executed, last_transition)
        g6 == add_callback(g5, first_transition, "waiting_for_action", ti, 0, si)
        g7 == add_callback(g6, last_transition, "action_executed", 0, 0, si)
    IN  StepGates(c, g7, si, ti, tos_started, tos_finished, last_transition,
                  [keys |-> {"moved_to_location", "action_executed", "started_by",
                             "finished_by"},
                   moved_to_location |-> moved_to_location,
                   action_executed |-> action_executed,
                   started_by |-> NoPlace, finished_by |-> NoPlace],
                  "waiting_for_move"))

generate_move_order_step(c, g, si, ti) ==
    Strict(g,
    LET mos_started == <<"started", "step", si>>
        mos_finished == <<"finished", "step", si>>
        first_transition == <<"first transition", "step", si>>
        moved_to_location == <<"Moved to", "step", si>>
        g1 == create_place(
                 create_transition(
                    create_place(create_place(g, mos_started), mos_finished),
                    first_transition),
                 moved_to_location)
        g2 == add_input(add_input(g1, mos_started, first_transition),
                        moved_to_location, first_transition)
        g3 == add_callback(g2, first_transition, "moved_to_location", 0, 0, si)
    IN  StepGates(c, g3, si, ti, mos_started, mos_finished, first_transition,
                  [keys |-> {"moved_to_location", "started_by", "finished_by"},
                   moved_to_location |-> moved_to_location,
                   action_executed |-> NoPlace,
                   started_by |-> NoPlace, finished_by |-> NoPlace],
                  "waiting_for_move"))

generate_action_order_step(c, g, si, ti) ==
    Strict(g,
    LET aos_started == <<"started", "step", si>>
        aos_finished == <<"finished", "step", si>>
        first_transition == <<"first transition", "step", si>>
        action_executed == <<"Action executed", "step", si>>
        g1 == create_place(
                 create_transition(
                    create_place(create_place(g, aos_started), aos_finished),
                    first_transition),
                 action_executed)
        g2 == add_input(add_input(g1, aos_started, first_transition),
                        action_executed, first_transition)
        g3 == add_callback(g2, first_transition, "action_executed", 0, 0, si)
    IN  StepGates(c, g3, si, ti, aos_started, aos_finished, first_transition,
                  [keys |-> {"action_executed", "started_by", "finished_by"},
                   moved_to_location |-> NoPlace,
                   action_executed |-> action_executed,
                   started_by |-> NoPlace, finished_by |-> NoPlace],
                  "waiting_for_action"))


\* ------------------------------------------------------------------ orders and task calls
RECURSIVE generate_task_call(_, _, _, _, _, _, _)

generate_on_done(c, g, si, ti, first_transition, second_transition, in_loop) ==
    Strict(g,
    generate_task_call(c, g, StepOf(c, g.order_steps[si].order_step).follow_up_task_name,
                       ti, first_transition, second_transition, in_loop))

\* as handle_transport_order_step, but only the first step of the pickup and of
\* the delivery list has its finished place joined to the second transition
handle_transport_order_step_first_only(c, g, name, oi, ti, first_transition, second_transition, final_transition, in_loop, is_delivery) ==
    Strict(g,
    Let(NewOrderStepAPI(g, name, oi), LAMBDA g1 :
    Let(Len(g1.order_steps), LAMBDA si :
    Let(generate_transport_order_step(c, g1, si, ti), LAMBDA r :
    Let(IF StepOf(c, name).started_by_expr.k # "none"
        THEN add_callback(r.g, first_transition, "started_by", ti, 0, si)
        ELSE add_callback(r.g, first_transition, "waiting_for_move", ti, 0, si),
        LAMBDA g2 :
    Let(IF name[2] = 1
        THEN add_input(add_output(g2, r.started, first_transition),
                       r.finished, second_transition)
        ELSE add_output(g2, r.started, first_transition), LAMBDA g3 :
    Let(IF is_delivery
        THEN add_callback(g3, r.last_transition, "order_finished", 0, oi, 0)
        ELSE g3, LAMBDA g4 :
    [g |-> IF r.has_follow_up_task
           THEN generate_on_done(c, g4, si, ti, r.last_transition, final_transition,
                                 in_loop).g
           ELSE g4,
     uuids |-> <<r.last_transition>>])))))))

handle_transport_order_step(c, g, name, oi, ti, first_transition, second_transition, final_transition, in_loop, is_delivery) ==
    Strict(g,
    Let(NewOrderStepAPI(g, name, oi), LAMBDA g1 :
    Let(Len(g1.order_steps), LAMBDA si :
    Let(generate_transport_order_step(c, g1, si, ti), LAMBDA r :
    Let(IF StepOf(c, name).started_by_expr.k # "none"
        THEN add_callback(r.g, first_transition, "started_by", ti, 0, si)
        ELSE add_callback(r.g, first_transition, "waiting_for_move", ti, 0, si),
        LAMBDA g2 :
    Let(add_input(add_output(g2, r.started, first_transition),
                  r.finished, second_transition), LAMBDA g3 :
    Let(IF is_delivery
        THEN add_callback(g3, r.last_transition, "order_finished", 0, oi, 0)
        ELSE g3, LAMBDA g4 :
    [g |-> IF r.has_follow_up_task
           THEN generate_on_done(c, g4, si, ti, r.last_transition, final_transition,
                                 in_loop).g
           ELSE g4,
     uuids |-> <<r.last_transition>>])))))))

RECURSIVE handle_steps(_, _, _, _, _, _, _, _, _, _, _)
\* the loops over transport_order.pickup_tos / delivery_tos
handle_steps(c, g, names, i, oi, ti, first_transition, second_transition, final_transition, in_loop, is_delivery) ==
    Strict(g,
    IF i > Len(names) THEN [g |-> g, uuids |-> <<>>]
    ELSE Let(handle_transport_order_step(c, g, names[i], oi, ti, first_transition,
                second_transition, final_transition, in_loop, is_delivery), LAMBDA r :
         Let(handle_steps(c, r.g, names, i + 1, oi, ti, first_transition,
                second_transition, final_transition, in_loop, is_delivery), LAMBDA rest :
         [g |-> rest.g, uuids |-> r.uuids \o rest.uuids])))

generate_transport_order(c, g, stmt, ti, first_connection, second_connection, in_loop) ==
    Strict(g,
    LET oi == Len(g.orders) + 1
        transport_started == <<"Transport started", "order", oi>>
        branch_transition == <<"branch transition", "order", oi>>
        sync_transition == <<"sync transition", "order", oi>>
        g1 == create_transition(
                 create_transition(create_place(g, transport_started), branch_transition),
                 sync_transition)
        g2 == add_input(add_output(g1, transport_started, first_connection),
                        transport_started, branch_transition)
        g3 == add_callback(NewOrderAPI(g2, stmt, ti, in_loop), first_connection,
                           "order_started", 0, oi, 0)
    IN  Let(handle_steps(c, g3, stmt.pickup, 1, oi, ti, branch_transition,
                         sync_transition, second_connection, in_loop, FALSE),
            LAMBDA pick :
        Let(handle_steps(c, pick.g, stmt.delivery, 1, oi, ti, sync_transition,
                         second_connection, second_connection, in_loop, TRUE),
            LAMBDA deliv :
        [g |-> deliv.g, uuids |-> deliv.uuids])))

generate_move_order(c, g, stmt, ti, first_connection, second_connection, in_loop) ==
    Strict(g,
    LET oi == Len(g.orders) + 1
        move_started == <<"Move started", "order", oi>>
        first_transition == <<"first transition", "order", oi>>
    IN
    Let(add_callback(NewOrderStepAPI(NewOrderAPI(g, stmt, ti, in_loop), stmt.step, oi),
                     first_connection, "order_started", 0, oi, 0), LAMBDA g1 :
    Let(Len(g1.order_steps), LAMBDA si :
    Let(create_transition(create_place(g1, move_started), first_transition),
        LAMBDA g2 :
    Let(add_output(add_input(g2, move_started, first_transition),
                   move_started, first_connection), LAMBDA g3 :
    Let(generate_move_order_step(c, g3, si, ti), LAMBDA r :
    Let(IF StepOf(c, stmt.step).started_by_expr.k # "none"
        THEN add_callback(r.g, first_transition, "started_by", ti, 0, si)
        ELSE add_callback(r.g, first_transition, "waiting_for_move", ti, 0, si),
        LAMBDA g4 :
    Let(add_output(g4, r.started, first_transition), LAMBDA g5 :
    Let(add_callback(g5, r.last_transition, "order_finished", 0, oi, 0), LAMBDA g6 :
    Let(add_input(g6, r.finished, second_connection), LAMBDA g7 :
    [g |-> IF r.has_follow_up_task
           THEN generate_on_done(c, g7, si, ti, r.last_transition, second_connection,
                                 in_loop).g
           ELSE g7,
     uuids |-> <<r.last_transition>>]))))))))))

generate_action_order(c, g, stmt, ti, first_connection, second_connection, in_loop) ==
    Strict(g,
    LET oi == Len(g.orders) + 1
        action_started == <<"Action started", "order", oi>>
        first_transition == <<"first transition", "order", oi>>
    IN
    Let(add_callback(NewOrderStepAPI(NewOrderAPI(g, stmt, ti, in_loop), stmt.step, oi),
                     first_connection, "order_started", 0, oi, 0), LAMBDA g1 :
    Let(Len(g1.order_steps), LAMBDA si :
    Let(create_transition(create_place(g1, action_started), first_transition),
        LAMBDA g2 :
    Let(add_output(add_input(g2, action_started, first_transition),
                   action_started, first_connection), LAMBDA g3 :
    Let(generate_action_order_step(c, g3, si, ti), LAMBDA r :
    Let(IF StepOf(c, stmt.step).started_by_expr.k # "none"
        THEN add_callback(r.g, first_transition, "started_by", ti, 0, si)
        ELSE add_callback(r.g, first_transition, "waiting_for_action", ti, 0, si),
        LAMBDA g4 :
    Let(add_output(g4, r.started, first_transition), LAMBDA g5 :
    Let(add_callback(g5, r.last_transition, "order_finished", 0, oi, 0), LAMBDA g6 :
    Let(add_input(g6, r.finished, second_connection), LAMBDA g7 :
    [g |-> IF r.has_follow_up_task
           THEN generate_on_done(c, g7, si, ti, r.last_transition, second_connection,
                                 in_loop).g
           ELSE g7,
     uuids |-> <<r.last_transition>>]))))))))))

handle_other_statements(c, g, stmt, ti, first_transition, second_transition, in_loop) ==
    Strict(g,
    Let(g.task_apis[ti].uuid, LAMBDA tu :
    Let(IF tu \in DOMAIN g.uuids_per_task THEN g
        ELSE [g EXCEPT !.uuids_per_task = Put(@, tu, UptEmpty)], LAMBDA g1 :
        CASE stmt.kind = "transport" ->
                generate_transport_order(c, g1, stmt, ti, first_transition,
                                         second_transition, in_loop)
          [] stmt.kind = "move" ->
                generate_move_order(c, g1, stmt, ti, first_transition,
                                    second_transition, in_loop)
          [] OTHER ->
                generate_action_order(c, g1, stmt, ti, first_transition,
                                      second_transition, in_loop))))

RECURSIVE generate_statements_from(_, _, _, _, _, _, _, _, _)

\* a counting loop of task ti: the place "Loop" is marked by the transition
\* before the loop and again by the last transition of the body; the loop
\* transition takes its token and calls on_counting_loop, which marks either
\* the place before the body or the place before the transition after the loop.
\* The statements of the body are generated with in_loop set.
loop_id(ti) == <<"Loop", "loop", ti>>
loop_statements_id(ti) == <<"Loop statements", "loop", ti>>
loop_finished_id(ti) == <<"Loop done", "loop", ti>>

generate_counting_loop(c, g, stmt, ti, first_transition, second_transition) ==
    Strict(g,
    Let(<<(<<"loop condition", "loop", ti>>), (<<"loop body", "loop", ti>>),
          (<<"loop back", "loop", ti>>)>>, LAMBDA t :
    Let(create_place(create_place(create_place(g, loop_id(ti)),
                                  loop_statements_id(ti)), loop_finished_id(ti)),
        LAMBDA g1 :
    Let(create_transition(create_transition(create_transition(g1, t[1]), t[2]), t[3]),
        LAMBDA g2 :
    Let(add_input(add_output(g2, loop_id(ti), first_transition), loop_id(ti), t[1]),
        LAMBDA g3 :
    Let(add_input(add_callback(g3, t[1], "counting_loop", ti, 0, 0),
                  loop_statements_id(ti), t[2]), LAMBDA g4 :
    Let(add_input(add_output(g4, loop_id(ti), t[3]), loop_finished_id(ti),
                  second_transition), LAMBDA g5 :
    Let(generate_statements_from(c, g5, ti, stmt.body, 1, t[2], t[3], TRUE, <<>>),
        LAMBDA r :
    [g |-> r.g, uuids |-> <<second_transition>>]))))))))

\* the statement loop of generate_statements, from statement i on
generate_statements_from(c, g, ti, statements, i, previous_connection, last_connection, in_loop, connection_uuids) ==
    Strict(g,
    IF i > Len(statements) THEN [g |-> g, uuids |-> connection_uuids]
    ELSE LET inner == i < Len(statements)
             stmt == statements[i]
         IN
         Let(IF inner THEN <<"connection", "task", g.conn + 1>> ELSE last_connection,
             LAMBDA current_connection :
         Let(IF inner
             THEN [create_transition(g, current_connection) EXCEPT !.conn = @ + 1]
             ELSE g, LAMBDA g1 :
         Let(IF stmt.kind = "call"
             THEN generate_task_call(c, g1, stmt.name, ti, previous_connection,
                                     current_connection, in_loop)
             ELSE IF stmt.kind = "loop"
             THEN generate_counting_loop(c, g1, stmt, ti, previous_connection,
                                         current_connection)
             ELSE handle_other_statements(c, g1, stmt, ti, previous_connection,
                                          current_connection, in_loop), LAMBDA r :
         generate_statements_from(c, r.g, ti, statements, i + 1, current_connection,
                                  last_connection, in_loop, r.uuids)))))

generate_statements(c, g, ti, statements, first_connection, last_connection, in_loop) ==
    generate_statements_from(c, g, ti, statements, 1, first_connection, last_connection,
                             in_loop, <<>>)

RECURSIVE add_callbacks(_, _, _, _)
\* for last_connection_uuid in last_connection_uuids: add_callback(.., fn, task)
add_callbacks(g, uuids, fn, ti) ==
    Strict(g,
    IF uuids = <<>> THEN g
    ELSE add_callbacks(add_callback(g, Head(uuids), fn, ti, 0, 0), Tail(uuids), fn, ti))

\* as generate_pfdl_task_call, but task_started is registered after the
\* statements of the task have been generated
generate_pfdl_task_call_started_last(c, g, name, task_context, first_transition, second_transition, in_loop) ==
    Strict(g,
    Let(TaskOf(c, name), LAMBDA called_task :
    Let(NewTaskAPI(g, name, task_context, in_loop, Uuid(g.uuid_ctr)), LAMBDA g1 :
    Let(Len(g1.task_apis), LAMBDA ti :
    Let([g1 EXCEPT !.uuids_per_task = Put(@, g1.task_apis[ti].uuid, UptEmpty)],
        LAMBDA g2 :
    Let(g2, LAMBDA g3 :
    Let(<<"before FinishedBy", "task", ti>>, LAMBDA transition_before_finished_by :
    IF called_task.finished_by_expr.k # "none"
    THEN \* with a FinishedBy expression
         Let(create_transition(g3, transition_before_finished_by), LAMBDA f1 :
         Let(generate_statements(c, f1, ti, called_task.statements, first_transition,
                                 transition_before_finished_by, in_loop), LAMBDA fs :
         Let(add_callbacks(add_callback(fs.g, first_transition, "task_started", ti, 0, 0),
                           fs.uuids, "finished_by", ti), LAMBDA f2 :
         Let(generate_finished_by_for_task(f2, transition_before_finished_by,
                                           second_transition, ti), LAMBDA fb :
         Let([fb.g EXCEPT !.uuids_per_task[g1.task_apis[ti].uuid] =
                    [@ EXCEPT !.keys = @ \cup {"finished_by"},
                              !.finished_by = fb.finished_by]], LAMBDA f3 :
         [g |-> add_callback(f3, second_transition, "task_finished", ti, 0, 0),
          uuids |-> <<fb.waiting_for_finished_by, fb.finished_by>>,
          context |-> ti])))))
    ELSE \* without
         Let(generate_statements(c, g3, ti, called_task.statements, first_transition,
                                 second_transition, in_loop), LAMBDA ns :
         [g |-> add_callbacks(add_callback(ns.g, first_transition, "task_started", ti, 0, 0),
                              ns.uuids, "task_finished", ti),
          uuids |-> ns.uuids, context |-> ti]))))))))

generate_pfdl_task_call(c, g, name, task_context, first_transition, second_transition, in_loop) ==
    Strict(g,
    Let(TaskOf(c, name), LAMBDA called_task :
    Let(NewTaskAPI(g, name, task_context, in_loop, Uuid(g.uuid_ctr)), LAMBDA g1 :
    Let(Len(g1.task_apis), LAMBDA ti :
    Let([g1 EXCEPT !.uuids_per_task = Put(@, g1.task_apis[ti].uuid, UptEmpty)],
        LAMBDA g2 :
    Let(add_callback(g2, first_transition, "task_started", ti, 0, 0), LAMBDA g3 :
    Let(<<"before FinishedBy", "task", ti>>, LAMBDA transition_before_finished_by :
    IF called_task.finished_by_expr.k # "none"
    THEN \* with a FinishedBy expression
         Let(create_transition(g3, transition_before_finished_by), LAMBDA f1 :
         Let(generate_statements(c, f1, ti, called_task.statements, first_transition,
                                 transition_before_finished_by, in_loop), LAMBDA fs :
         Let(add_callbacks(fs.g, fs.uuids, "finished_by", ti), LAMBDA f2 :
         Let(generate_finished_by_for_task(f2, transition_before_finished_by,
                                           second_transition, ti), LAMBDA fb :
         Let([fb.g EXCEPT !.uuids_per_task[g1.task_apis[ti].uuid] =
                    [@ EXCEPT !.keys = @ \cup {"finished_by"},
                              !.finished_by = fb.finished_by]], LAMBDA f3 :
         [g |-> add_callback(f3, second_transition, "task_finished", ti, 0, 0),
          uuids |-> <<fb.waiting_for_finished_by, fb.finished_by>>,
          context |-> ti])))))
    ELSE \* without
         Let(generate_statements(c, g3, ti, called_task.statements, first_transition,
                                 second_transition, in_loop), LAMBDA ns :
         [g |-> add_callbacks(ns.g, ns.uuids, "task_finished", ti),
          uuids |-> ns.uuids, context |-> ti]))))))))

generate_task_call(c, g, name, task_context, first_transition, second_transition, in_loop) ==
    Strict(g,
    IF TaskOf(c, name).started_by_expr.k # "none"
    THEN Let(generate_started_by(g, first_transition, "task", Len(g.task_apis) + 1, TRUE),
             LAMBDA sb :
         Let(generate_pfdl_task_call(c, sb.g, name, task_context, sb.start_transition,
                                     second_transition, in_loop), LAMBDA r :
         Let([r.g EXCEPT !.uuids_per_task[r.g.task_apis[r.context].uuid] =
                    [@ EXCEPT !.keys = @ \cup {"started_by"},
                              !.started_by = sb.started_by]], LAMBDA g1 :
         [g |-> add_callback(g1, first_transition, "started_by", r.context, 0, 0),
          uuids |-> r.uuids])))
    ELSE Let(generate_pfdl_task_call(c, g, name, task_context, first_transition,
                                     second_transition, in_loop), LAMBDA n :
         [g |-> n.g, uuids |-> n.uuids]))


\* ------------------------------------------------------------------ the whole net
\* the production task: its started place, its two transitions, its statements
\* between them, its finished place
task_started_uuid == <<"productionTask_started", "task", 1>>
task_finished_uuid == <<"productionTask_finished", "task", 1>>

generate_petri_net(c) ==
    LET task == TaskOf(c, "productionTask")
        g0 == EmptyGenerator(c)
        \* the production task's context: "0" with test ids, else a uuid4
        g1 == NewTaskAPI(g0, task.name, 0, FALSE,
                         IF c.test_ids THEN TestId(0) ELSE Uuid(g0.uuid_ctr))
        connection == <<"start connection", "task", 1>>
        second_connection == <<"end connection", "task", 1>>
        g2 == create_transition(create_place(g1, task_started_uuid), connection)
        g3 == add_callback(g2, connection, "task_started", 1, 0, 0)
        g4 == add_input(g3, task_started_uuid, connection)
        g5 == create_transition(create_place(g4, task_finished_uuid), second_connection)
        r == generate_statements(c, g5, 1, task.statements, connection, second_connection,
                                 FALSE)
        g6 == add_output(r.g, task_finished_uuid, second_connection)
    IN  add_callback(g6, second_connection, "task_finished", 1, 0, 0)

\* the callbacks registered for transition t, in registration order
CallbacksOf(cbs, t) ==
    LET F[i \in 0..Len(cbs)] ==
            IF i = 0 THEN <<>>
            ELSE IF cbs[i].t = t THEN Append(F[i - 1], i) ELSE F[i - 1]
    IN  F[Len(cbs)]

NetOf(c) ==
    Let(generate_petri_net(c), LAMBDA g :
    Let(Len(g.trans), LAMBDA n :
    [g |-> g,
     pre |-> [i \in 1..n |-> {a[1] : a \in {b \in g.inp : b[2] = g.trans[i]}}],
     post |-> [i \in 1..n |-> {a[1] : a \in {b \in g.out : b[2] = g.trans[i]}}],
     cb |-> [i \in 1..n |-> CallbacksOf(g.cbs, g.trans[i])]]))



\* ------------------------------------------------------------------ events
NoId == [k |-> "none", n |-> 0]
\* Event(event_type, data): data holds "task", "order_step" (started_by /
\* finished_by) or "order_step_uuid" and "status" (order_step_update); NoId and ""
\* stand for a key that is absent
Event(event_type, task, order_step, status) ==
    [event_type |-> event_type, task |-> task, order_step |-> order_step, status |-> status]
START_PRODUCTION_TASK == Event("start_production_task", NoId, NoId, "")
NoEvent == Event("", NoId, NoId, "")
\* Event("instance_update", {"instance_name": .., "new_values": ..}), given to
\* the scheduler when time.time() - starting_time is now
InstanceUpdate(instance_name, new_values, now) ==
    [event_type |-> "instance_update", task |-> NoId, order_step |-> NoId, status |-> "",
     instance_name |-> instance_name, new_values |-> new_values, now |-> now]

InSeq(x, seq) == \E i \in 1..Len(seq) : seq[i] = x
\* list.remove(x): the first occurrence
RemoveFirst(seq, x) ==
    LET i == CHOOSE j \in 1..Len(seq) : seq[j] = x /\ \A k \in 1..(j - 1) : seq[k] # x
    IN  SubSeq(seq, 1, i - 1) \o SubSeq(seq, i + 1, Len(seq))
MinOf(S) == CHOOSE x \in S : \A y \in S : x <= y

\* ------------------------------------------------------------------ expression evaluator
get_attribute_access_value(attribute_access, instances) ==
    instances[attribute_access[1]][attribute_access[2]]

\* op_func(left, right) of Python: numbers and booleans compare with each other,
\* strings with strings; ordering a string against a number is a TypeError
op_func(op, l, r) ==
    LET numeric(x) == x.t \in {"num", "bool"}
        comparable == (numeric(l) /\ numeric(r)) \/ (l.t = "str" /\ r.t = "str")
    IN  CASE op = "==" -> Bool(IF numeric(l) /\ numeric(r) THEN l.n = r.n ELSE l = r)
          [] op = ">" -> IF comparable THEN Bool(l.n > r.n) ELSE TypeErr
          [] op = "<" -> IF comparable THEN Bool(l.n < r.n) ELSE TypeErr

execute_mf_plugin_expression(expression, instances) ==
    CASE expression.k = "lit" -> expression.v
      [] expression.k = "attr" -> get_attribute_access_value(expression.path, instances)
      [] expression.k = "bin" ->
            op_func(expression.op,
                    get_attribute_access_value(expression.path, instances),
                    expression.v)

\* Python truth of a value
Truthy(v) == v.t # "TypeError" /\ v.n # 0

\* ------------------------------------------------------------------ rules
\* Expressions as the visitor stores them in Rule.expressions:
\*   LitE   a Python int, float or bool
\*   StrE   a Python str (an identifier or a string literal)
\*   ListE  an attribute access, a Python list of the names
\*   CallE  a rule call, a Python tuple (name, dict); the dict is kept as the
\*          sequence of its keys with their values, in insertion order
\*   NotE   a dict with unOp and value;  BinE  a dict with left, binOp, right
NoneV == [t |-> "None", n |-> 0]
KeyErr == [t |-> "KeyError", n |-> 0]
IsErr(v) == v.t \in {"TypeError", "KeyError"}
LitE(v) == [k |-> "lit", v |-> v]
StrE(s) == [k |-> "str", s |-> s]
ListE(items) == [k |-> "list", items |-> items]
CallE(name, params) == [k |-> "call", name |-> name, params |-> params]
NotE(value) == [k |-> "not", value |-> value]
BinE(left, op, right) == [k |-> "binop", left |-> left, op |-> op, right |-> right]

\* one item of a parameter dict: the key and the default value
Param(key, default_value) == [key |-> key, default_value |-> default_value]
\* Rule(name, parameters, expressions); parameters maps names to defaults
Rule(parameters, expressions) == [parameters |-> parameters, expressions |-> expressions]

\* the value of a Python str: the strings that occur are told apart by a number
StrCode(s) ==
    CASE s = "I" -> 1 [] s = "J" -> 2 [] s = "heavy" -> 3 [] s = "weight" -> 4
      [] s = "a" -> 5 [] s = "b" -> 6 [] s = "x" -> 7 [] OTHER -> 9

\* dict built by inserting the keys in order: a key inserted again keeps its place
RECURSIVE DictKeys(_, _)
DictKeys(keys, acc) ==
    IF keys = <<>> THEN acc
    ELSE DictKeys(Tail(keys),
                  IF InSeq(Head(keys), acc) THEN acc ELSE Append(acc, Head(keys)))

\* substitute_parameter_in_expression: e is the value returned, stored is the
\* expression object that was passed in, as it is after the call (an attribute
\* access list is changed in place)
RECURSIVE substitute_parameter_in_expression(_, _)
substitute_parameter_in_expression(expression, subs) ==
    CASE expression.k = "str" ->
            [e |-> IF expression.s \in DOMAIN subs THEN subs[expression.s] ELSE expression,
             stored |-> expression]
      [] expression.k = "list" ->
            Let(IF expression.items[1].k = "str" /\ expression.items[1].s \in DOMAIN subs
                THEN [expression.items EXCEPT ![1] = subs[expression.items[1].s]]
                ELSE expression.items, LAMBDA items :
            [e |-> IF Len(items) = 1 THEN items[1] ELSE ListE(items),
             stored |-> ListE(items)])
      [] expression.k = "call" ->
            Let(DictKeys([j \in DOMAIN expression.params |->
                            IF /\ expression.params[j].key.k = "str"
                               /\ expression.params[j].key.s \in DOMAIN subs
                            THEN subs[expression.params[j].key.s]
                            ELSE expression.params[j].key], <<>>), LAMBDA new_params :
            [e |-> CallE(expression.name,
                         [i \in DOMAIN new_params |-> Param(new_params[i], LitE(NoneV))]),
             stored |-> expression])
      [] expression.k = "not" ->
            Let(substitute_parameter_in_expression(expression.value, subs), LAMBDA r :
            [e |-> NotE(r.e), stored |-> NotE(r.stored)])
      [] expression.k = "binop" ->
            Let(substitute_parameter_in_expression(expression.left, subs), LAMBDA l :
            Let(substitute_parameter_in_expression(expression.right, subs), LAMBDA r :
            [e |-> BinE(l.e, expression.op, r.e),
             stored |-> BinE(l.stored, expression.op, r.stored)]))
      [] OTHER -> [e |-> expression, stored |-> expression]

\* the dict subs of evaluate_rule: the i-th parameter of the rule is given the
\* i-th key of the call's dict, or its default when the call has fewer keys
Subs(rule, rule_call_parameters) ==
    [name \in {rule.parameters[i].key : i \in DOMAIN rule.parameters} |->
        Let(CHOOSE i \in DOMAIN rule.parameters : rule.parameters[i].key = name,
            LAMBDA i :
        IF i > Len(rule_call_parameters) THEN rule.parameters[i].default_value
        ELSE rule_call_parameters[i].key)]

RECURSIVE evaluate_rule(_, _, _)
RECURSIVE evaluate_rule_from(_, _, _, _, _)
RECURSIVE execute_rule_expression(_, _, _)

\* execute_mf_plugin_expression for the expressions of rules; v is the value or
\* the exception, rules the rule table as the evaluation leaves it
execute_rule_expression(expression, instances, rules) ==
    CASE expression.k = "lit" -> [v |-> expression.v, rules |-> rules]
      [] expression.k = "str" -> [v |-> Str(StrCode(expression.s)), rules |-> rules]
      [] expression.k = "list" ->
            [v |-> IF \/ expression.items[1].k # "str"
                      \/ expression.items[1].s \notin DOMAIN instances
                   THEN KeyErr
                   ELSE IF Len(expression.items) = 1 THEN NoneV
                   ELSE IF expression.items[2].s
                              \notin DOMAIN instances[expression.items[1].s]
                   THEN KeyErr
                   ELSE instances[expression.items[1].s][expression.items[2].s],
             rules |-> rules]
      [] expression.k = "call" -> evaluate_rule(expression, instances, rules)
      [] expression.k = "not" ->
            Let(execute_rule_expression(expression.value, instances, rules), LAMBDA r :
            IF IsErr(r.v) THEN r ELSE [v |-> Bool(~Truthy(r.v)), rules |-> r.rules])
      [] expression.k = "binop" ->
            Let(execute_rule_expression(expression.left, instances, rules), LAMBDA l :
            IF IsErr(l.v) THEN l
            ELSE Let(execute_rule_expression(expression.right, instances, l.rules),
                     LAMBDA r :
                 IF IsErr(r.v) THEN r
                 ELSE [v |-> op_func(expression.op, l.v, r.v), rules |-> r.rules]))

\* the loop of evaluate_rule over rule.expressions, from expression i on
evaluate_rule_from(rule_call, instances, rules, subs, i) ==
    IF i > Len(rules[rule_call.name].expressions)
    THEN [v |-> Bool(TRUE), rules |-> rules]
    ELSE Let(substitute_parameter_in_expression(
                rules[rule_call.name].expressions[i], subs), LAMBDA s :
         Let(execute_rule_expression(
                s.e, instances,
                [rules EXCEPT ![rule_call.name].expressions[i] = s.stored]), LAMBDA r :
         IF IsErr(r.v) THEN r
         ELSE IF ~Truthy(r.v) THEN [v |-> Bool(FALSE), rules |-> r.rules]
         ELSE evaluate_rule_from(rule_call, instances, r.rules, subs, i + 1)))

evaluate_rule(rule_call, instances, rules) ==
    IF rule_call.name \notin DOMAIN rules THEN [v |-> KeyErr, rules |-> rules]
    ELSE evaluate_rule_from(rule_call, instances, rules,
                            Subs(rules[rule_call.name], rule_call.params), 1)

\* process.rules of the processes with rules
\*   isHeavy(weight = 100)  { weight > 50 }
\*   heavier(x)             { x.weight > 50 }
\*   less(a = 1, b = 2)     { a < b }
\*   same(a, b)             { a == b }
\*   outer(a, b)            { less(a, b) }
\*   both(a, b = 3)         { same(a, b) }
Name(c, s) == IF c.shape = "rules_list" THEN ListE(<<StrE(s)>>) ELSE StrE(s)
RuleTable(c) ==
    [isHeavy |-> Rule(<<Param("weight", LitE(Num(100)))>>,
                      <<BinE(Name(c, "weight"), ">", LitE(Num(50)))>>),
     heavier |-> Rule(<<Param("x", LitE(NoneV))>>,
                      <<BinE(ListE(<<StrE("x"), StrE("weight")>>), ">", LitE(Num(50)))>>),
     less |-> Rule(<<Param("a", LitE(Num(1))), Param("b", LitE(Num(2)))>>,
                   <<BinE(Name(c, "a"), "<", Name(c, "b"))>>),
     same |-> Rule(<<Param("a", LitE(NoneV)), Param("b", LitE(NoneV))>>,
                   <<BinE(Name(c, "a"), "==", Name(c, "b"))>>),
     outer |-> Rule(<<Param("a", LitE(NoneV)), Param("b", LitE(NoneV))>>,
                    <<CallE("less", <<Param(StrE("a"), LitE(NoneV)),
                                      Param(StrE("b"), LitE(NoneV))>>)>>),
     both |-> Rule(<<Param("a", LitE(NoneV)), Param("b", LitE(Num(3)))>>,
                   <<CallE("same", <<Param(StrE("a"), LitE(NoneV)),
                                     Param(StrE("b"), LitE(NoneV))>>)>>)]
RulesOf(c) == IF c.shape \in RuleShapes THEN RuleTable(c) ELSE <<>>

\* ------------------------------------------------------------------ scheduler state
\* The state of one Scheduler with its generator and net:
\*   marking                 tokens per place
\*   awaited_events          Scheduler.awaited_events
\*   active_tasks            Scheduler.active_tasks (task APIs by index)
\*   task_uuid, order_uuid, step_uuid, first_loop_iteration
\*                           the mutable fields of the API objects
\*   uuids_per_task          PetriNetLogic.uuids_per_task
\*   order_step_test_id_counter, task_test_id_counter, uuid_ctr
\*                           the id sources
\*   running                 Scheduler.running
\*   loop_counters           Scheduler.loop_counters: iterations begun, per task
\*   timers                  Scheduler.time_instance_timers, by instance name: a
\*                           timer is "armed" (started, waiting for its time),
\*                           "running" (its thread is in update_instance),
\*                           "finished" or "cancelled"
\*   instances               process.instances: attributes per instance name
\*   log, fired, called      what the current call did, and how often each
\*                           transition fired and each callback ran so far
\*   assigned                every id an API object was ever given
\*   err, ret, task_api      the exception in flight, the value returned, and
\*                           update_instance's loop variable
\* an id given to an API object: which object (kind and position) and the id
Assigned(kind, idx, id) == [kind |-> kind, idx |-> idx, id |-> id]

InstancesOf(c) ==
    IF c.shape \in RuleShapes
    THEN [i \in {"I", "J"} |->
            [id |-> Str(0), time |-> Num(0),
             weight |-> Num(IF i = "I" THEN c.w0 ELSE 70 - c.w0)]]
    ELSE IF c.timers > 0
    THEN [i \in TimerNames(c) |->
            [id |-> Str(0), time |-> Num(0), timing |-> Str(0), value |-> Bool(FALSE)]]
    ELSE IF HasInstance(c)
    THEN [i \in {"I"} |-> [id |-> Str(0), time |-> Num(0), weight |-> Num(c.w0)]]
    ELSE <<>>

InitialState(c) ==
    LET g == c.net.g
    IN  [marking |-> [p \in g.places |-> 0],
         awaited_events |-> <<>>,
         active_tasks |-> <<>>,
         task_uuid |-> [i \in 1..Len(g.task_apis) |-> g.task_apis[i].uuid],
         order_uuid |-> [i \in 1..Len(g.orders) |-> g.orders[i].uuid],
         step_uuid |-> [i \in 1..Len(g.order_steps) |-> g.order_steps[i].uuid],
         first_loop_iteration |->
            [i \in 1..Len(g.orders) |-> g.orders[i].first_loop_iteration],
         uuids_per_task |-> g.uuids_per_task,
         order_step_test_id_counter |-> g.order_step_test_id_counter,
         task_test_id_counter |-> 0,
         uuid_ctr |-> g.uuid_ctr,
         running |-> FALSE,
         loop_counters |-> [i \in 1..Len(g.task_apis) |-> 0],
         timers |-> [i \in TimerNames(c) |-> "armed"],
         instances |-> InstancesOf(c),
         log |-> <<>>,
         fired |-> [i \in 1..Len(g.trans) |-> 0],
         called |-> [i \in 1..Len(g.cbs) |-> 0],
         assigned |->
            {Assigned("task", i, g.task_apis[i].uuid) : i \in 1..Len(g.task_apis)}
            \cup {Assigned("order", i, g.orders[i].uuid) : i \in 1..Len(g.orders)}
            \cup {Assigned("step", i, g.order_steps[i].uuid) :
                    i \in 1..Len(g.order_steps)},
         err |-> "", ret |-> FALSE, task_api |-> 0]

Raise(s, e) == [s EXCEPT !.err = e]
LogEntry(e, t, task, order, step) ==
    [e |-> e, t |-> t, task |-> task, order |-> order, step |-> step]
\* the listeners registered in task_callbacks are called: recorded in the log
Listeners(s, e, task, order, step) ==
    [s EXCEPT !.log = Append(@, LogEntry(e, NoPlace, task, order, step))]


\* ------------------------------------------------------------------ callback handlers
RECURSIVE fire_event(_, _, _)

\* a new id for a task API (pfdl on_task_started) and for an order step
\* (on_order_started): the test counter when test ids are generated, else uuid4
NewUuid(s) == Uuid(s.uuid_ctr)

\* as on_task_started, but the entry of uuids_per_task stays under the old id
on_task_started_keeps_entry(c, s, ti) ==
    Let(IF c.test_ids THEN TestId(s.task_test_id_counter) ELSE NewUuid(s),
        LAMBDA new_uuid :
    Let([s EXCEPT !.active_tasks = Append(@, ti),
                  !.task_uuid[ti] = new_uuid,
                  !.assigned = @ \cup {Assigned("task", ti, new_uuid)},
                  !.task_test_id_counter = IF c.test_ids THEN @ + 1 ELSE @,
                  !.uuid_ctr = IF c.test_ids THEN @ ELSE @ + 1], LAMBDA s1 :
    Listeners(s1, "task_started", ti, 0, 0)))

on_task_started(c, s, ti) ==
    Let(s.task_uuid[ti], LAMBDA old_uuid :
    Let(IF c.test_ids THEN TestId(s.task_test_id_counter) ELSE NewUuid(s),
        LAMBDA new_uuid :
    Let([s EXCEPT !.active_tasks = Append(@, ti),
                  !.task_uuid[ti] = new_uuid,
                  !.assigned = @ \cup {Assigned("task", ti, new_uuid)},
                  !.task_test_id_counter = IF c.test_ids THEN @ + 1 ELSE @,
                  !.uuid_ctr = IF c.test_ids THEN @ ELSE @ + 1], LAMBDA s1 :
    Let(Listeners(s1, "task_started", ti, 0, 0), LAMBDA s2 :
    IF old_uuid \in DOMAIN s2.uuids_per_task /\ old_uuid # new_uuid
    THEN [s2 EXCEPT !.uuids_per_task =
                Drop(Put(@, new_uuid, s2.uuids_per_task[old_uuid]), old_uuid)]
    ELSE s2))))

\* the first API in order_steps whose order step has the name
StepApiByName(c, name) ==
    LET steps == c.net.g.order_steps
    IN  MinOf({i \in 1..Len(steps) : steps[i].order_step = name})

\* uuid_dict[order_step_api.uuid] = uuid_dict.pop(old_order_step_uuid)
relocate_entry(s, task_api_uuid, old_order_step_uuid, new) ==
    IF /\ task_api_uuid \in DOMAIN s.uuids_per_task
       /\ old_order_step_uuid \in DOMAIN s.uuids_per_task[task_api_uuid].steps
    THEN [s EXCEPT !.uuids_per_task[task_api_uuid].steps =
             Drop(Put(@, new, @[old_order_step_uuid]), old_order_step_uuid)]
    ELSE s

RECURSIVE new_step_uuids(_, _, _, _, _)
\* on_order_started's loop over order_step_names; with c.pause = i the thread
\* is suspended ("paused") when it has given the i-th order step its new id
new_step_uuids(c, s, names, i, task_api_uuid) ==
    IF i > Len(names) THEN s
    ELSE Let(StepApiByName(c, names[i]), LAMBDA si :
         Let(s.step_uuid[si], LAMBDA old_order_step_uuid :
         Let(IF c.test_ids THEN TestId(s.order_step_test_id_counter) ELSE NewUuid(s),
             LAMBDA new :
         Let([s EXCEPT !.step_uuid[si] = new,
                       !.assigned = @ \cup {Assigned("step", si, new)},
                       !.order_step_test_id_counter = IF c.test_ids THEN @ + 1 ELSE @,
                       !.uuid_ctr = IF c.test_ids THEN @ ELSE @ + 1], LAMBDA s1 :
         IF c.pause = i THEN Raise(s1, "paused")
         ELSE new_step_uuids(c, relocate_entry(s1, task_api_uuid, old_order_step_uuid, new),
                             names, i + 1, task_api_uuid)))))

on_order_started(c, s, oi) ==
    Let(c.net.g.orders[oi], LAMBDA order_api :
    Let(IF ~order_api.in_loop THEN s
        ELSE IF s.first_loop_iteration[oi]
             THEN [s EXCEPT !.first_loop_iteration[oi] = FALSE]
             ELSE Let([s EXCEPT !.order_uuid[oi] = NewUuid(s), !.uuid_ctr = @ + 1,
                                !.assigned = @ \cup {Assigned("order", oi, NewUuid(s))}],
                      LAMBDA s1 :
                  IF order_api.order.kind # "transport"
                  THEN \* a MoveOrder / ActionOrder has no pickup_tos_names
                       Raise(s1, "AttributeError")
                  ELSE new_step_uuids(c, s1,
                                      order_api.order.pickup \o order_api.order.delivery,
                                      1, s1.task_uuid[order_api.task_context])),
        LAMBDA s2 :
    IF s2.err # "" THEN s2 ELSE Listeners(s2, "order_started", 0, oi, 0)))

\* on_started_by / on_finished_by: the awaited event, fired at once when the
\* expression holds
on_gate(c, s, kind, ti, si) ==
    Let(Event(kind, s.task_uuid[ti], IF si = 0 THEN NoId ELSE s.step_uuid[si], ""),
        LAMBDA awaited_event :
    Let(IF si = 0 THEN TaskOf(c, c.net.g.task_apis[ti].task)
        ELSE StepOf(c, c.net.g.order_steps[si].order_step), LAMBDA object :
    Let(IF kind = "started_by" THEN object.started_by_expr ELSE object.finished_by_expr,
        LAMBDA expr :
    Let([s EXCEPT !.awaited_events = Append(@, awaited_event)], LAMBDA s1 :
    Let(execute_mf_plugin_expression(expr, s1.instances), LAMBDA v :
    IF v = TypeErr THEN Raise(s1, "TypeError")
    ELSE IF Truthy(v) THEN fire_event(c, s1, awaited_event)
    ELSE Listeners(
            IF kind = "started_by" /\ si = 0
            THEN [s1 EXCEPT !.active_tasks = Append(@, ti)]
            ELSE s1,
            kind, ti, 0, si))))))

on_started_by(c, s, ti, si) == on_gate(c, s, "started_by", ti, si)
on_finished_by(c, s, ti, si) == on_gate(c, s, "finished_by", ti, si)

on_waiting_for_move(c, s, si, ti) ==
    Listeners([s EXCEPT !.awaited_events =
                  Append(@, Event("order_step_update", s.task_uuid[ti], s.step_uuid[si],
                                  "moved_to_location"))],
              "waiting_for_move", ti, 0, si)

on_waiting_for_action(c, s, si, ti) ==
    Listeners([s EXCEPT !.awaited_events =
                  Append(@, Event("order_step_update", s.task_uuid[ti], s.step_uuid[si],
                                  "action_executed"))],
              "waiting_for_action", ti, 0, si)

on_moved_to_location(c, s, si) == Listeners(s, "moved_to_location", 0, 0, si)
on_action_executed(c, s, si) == Listeners(s, "action_executed", 0, 0, si)
on_order_finished(c, s, oi) == Listeners(s, "order_finished", 0, oi, 0)

\* as on_task_finished, but the scheduler stops running with any task
on_task_finished_any_task(c, s, ti) ==
    IF ~InSeq(ti, s.active_tasks) THEN Raise(s, "ValueError")
    ELSE Let([s EXCEPT !.active_tasks = RemoveFirst(@, ti)], LAMBDA s1 :
         Let(Listeners(s1, "task_finished", ti, 0, 0), LAMBDA s2 :
         [s2 EXCEPT !.running = FALSE]))

\* timer.cancel() for every timer that is alive: a timer still waiting never
\* calls its function, a timer whose function is running is not stopped
cancel_timers(timers) ==
    [i \in DOMAIN timers |-> IF timers[i] = "armed" THEN "cancelled" ELSE timers[i]]

\* as on_task_finished, but the timers are left as they are
on_task_finished_no_cancel(c, s, ti) ==
    IF ~InSeq(ti, s.active_tasks) THEN Raise(s, "ValueError")
    ELSE Let([s EXCEPT !.active_tasks = RemoveFirst(@, ti)], LAMBDA s1 :
         Let(Listeners(s1, "task_finished", ti, 0, 0), LAMBDA s2 :
         IF c.net.g.task_apis[ti].task = "productionTask"
         THEN [s2 EXCEPT !.running = FALSE]
         ELSE s2))

on_task_finished(c, s, ti) ==
    IF ~InSeq(ti, s.active_tasks) THEN Raise(s, "ValueError")
    ELSE Let([s EXCEPT !.active_tasks = RemoveFirst(@, ti)], LAMBDA s1 :
         Let(Listeners(s1, "task_finished", ti, 0, 0), LAMBDA s2 :
         Let(IF c.net.g.task_apis[ti].task = "productionTask"
             THEN [s2 EXCEPT !.running = FALSE]
             ELSE s2, LAMBDA s3 :
         IF ~s3.running THEN [s3 EXCEPT !.timers = cancel_timers(@)] ELSE s3)))

\* on_counting_loop: another iteration while the counter is below the limit
on_counting_loop(c, s, ti) ==
    IF s.loop_counters[ti] < c.iters
    THEN [s EXCEPT !.loop_counters[ti] = @ + 1, !.marking[loop_statements_id(ti)] = @ + 1]
    ELSE [s EXCEPT !.marking[loop_finished_id(ti)] = @ + 1]

\* the call of one registered callback with its bound arguments
Callback(c, s, cb) ==
    CASE cb.fn = "task_started" -> on_task_started(c, s, cb.task)
      [] cb.fn = "task_finished" -> on_task_finished(c, s, cb.task)
      [] cb.fn = "order_started" -> on_order_started(c, s, cb.order)
      [] cb.fn = "order_finished" -> on_order_finished(c, s, cb.order)
      [] cb.fn = "started_by" -> on_started_by(c, s, cb.task, cb.step)
      [] cb.fn = "finished_by" -> on_finished_by(c, s, cb.task, cb.step)
      [] cb.fn = "waiting_for_move" -> on_waiting_for_move(c, s, cb.step, cb.task)
      [] cb.fn = "waiting_for_action" -> on_waiting_for_action(c, s, cb.step, cb.task)
      [] cb.fn = "moved_to_location" -> on_moved_to_location(c, s, cb.step)
      [] cb.fn = "action_executed" -> on_action_executed(c, s, cb.step)
      [] cb.fn = "counting_loop" -> on_counting_loop(c, s, cb.task)


\* ------------------------------------------------------------------ the token game
RECURSIVE run_callbacks(_, _, _, _)
\* for callback in callbacks: callback()   (an exception ends the loop)
run_callbacks(c, s, idxs, k) ==
    IF s.err # "" \/ k > Len(idxs) THEN s
    ELSE LET cb == c.net.g.cbs[idxs[k]]
             s1 == [s EXCEPT !.called[idxs[k]] = @ + 1]
         IN  run_callbacks(c, Callback(c, s1, cb), idxs, k + 1)

\* transition.fire(): one token from every input place, one to every output place
Fire(c, s, i) ==
    LET net == c.net
    IN  [s EXCEPT !.marking = [p \in DOMAIN @ |->
                                  @[p] - (IF p \in net.pre[i] THEN 1 ELSE 0)
                                       + (IF p \in net.post[i] THEN 1 ELSE 0)],
                  !.fired[i] = @ + 1,
                  !.log = Append(@, LogEntry("fire", net.g.trans[i], 0, 0, 0))]

EnabledTransitions(c, s) ==
    LET net == c.net
    IN  {i \in 1..Len(net.g.trans) :
            net.pre[i] # {} /\ \A p \in net.pre[i] : s.marking[p] >= 1}

RECURSIVE evaluate_petri_net(_, _)
\* fire the first enabled transition and call its callbacks, start over, until
\* no transition is enabled
evaluate_petri_net(c, s) ==
    IF s.err # "" \/ EnabledTransitions(c, s) = {} THEN s
    ELSE Let(MinOf(EnabledTransitions(c, s)), LAMBDA i :
         evaluate_petri_net(c, run_callbacks(c, Fire(c, s, i), c.net.cb[i], 1)))

has_place(c, name) == name \in c.net.g.places

\* PetriNetLogic.fire_event: the place the event stands for, by the event's type
\* and uuids_per_task; a lookup of a missing key raises KeyError, an event type
\* outside the three leaves name_in_petri_net unbound
LookupPlace(s, event) ==
    LET upt == s.uuids_per_task
        t == event.task
        os == event.order_step
        KeyError == [err |-> "KeyError", name |-> NoPlace]
        Found(p) == [err |-> "", name |-> p]
    IN  IF t = NoId THEN KeyError
        ELSE IF event.event_type \in {"started_by", "finished_by"}
        THEN IF os # NoId
             THEN IF t \notin DOMAIN upt THEN KeyError
                  ELSE IF os \notin DOMAIN upt[t].steps THEN KeyError
                  ELSE IF event.event_type = "started_by"
                       THEN Found(upt[t].steps[os].started_by)
                       ELSE Found(upt[t].steps[os].finished_by)
             ELSE IF t \notin DOMAIN upt THEN KeyError
                  ELSE IF event.event_type \notin upt[t].keys THEN KeyError
                  ELSE IF event.event_type = "started_by"
                       THEN Found(upt[t].started_by)
                       ELSE Found(upt[t].finished_by)
        ELSE IF event.event_type = "order_step_update"
        THEN IF os = NoId \/ event.status = "" THEN KeyError
             ELSE IF t \notin DOMAIN upt THEN KeyError
             ELSE IF os \notin DOMAIN upt[t].steps THEN KeyError
             ELSE IF event.status \notin upt[t].steps[os].keys THEN KeyError
             ELSE IF event.status = "moved_to_location"
                  THEN Found(upt[t].steps[os].moved_to_location)
                  ELSE Found(upt[t].steps[os].action_executed)
        ELSE [err |-> "UnboundLocalError", name |-> NoPlace]

\* the place is given a token (recorded in the log) and the net is evaluated
AddToken(c, s, name) ==
    evaluate_petri_net(c, [s EXCEPT !.marking[name] = @ + 1,
                                    !.log = Append(@, LogEntry("token", name, 0, 0, 0))])

\* as logic_fire_event, but the net is not evaluated after the token of an
\* action_executed event has been added
logic_fire_event_deferred(c, s, event) ==
    IF event = START_PRODUCTION_TASK
    THEN [AddToken(c, s, task_started_uuid) EXCEPT !.ret = TRUE]
    ELSE Let(LookupPlace(s, event), LAMBDA l :
         IF l.err # "" THEN Raise(s, l.err)
         ELSE IF has_place(c, l.name)
              THEN Let(IF event.status = "action_executed"
                       THEN [s EXCEPT !.marking[l.name] = @ + 1,
                                      !.log = Append(@, LogEntry("token", l.name, 0, 0, 0))]
                       ELSE AddToken(c, s, l.name), LAMBDA s1 :
                   IF s1.err # "" THEN s1 ELSE [s1 EXCEPT !.ret = TRUE])
              ELSE [s EXCEPT !.ret = FALSE])

logic_fire_event(c, s, event) ==
    IF event = START_PRODUCTION_TASK
    THEN \* the PFDL logic resolves its own event types
         [AddToken(c, s, task_started_uuid) EXCEPT !.ret = TRUE]
    ELSE Let(LookupPlace(s, event), LAMBDA l :
         IF l.err # "" THEN Raise(s, l.err)
         ELSE IF has_place(c, l.name)
              THEN Let(AddToken(c, s, l.name), LAMBDA s1 :
                   IF s1.err # "" THEN s1 ELSE [s1 EXCEPT !.ret = TRUE])
              ELSE [s EXCEPT !.ret = FALSE])

\* Scheduler.fire_event with an Event object: the PFDL scheduler forwards an
\* awaited event to the net and removes it from the awaited events on success
fire_event(c, s, event) ==
    IF s.err # "" THEN s
    ELSE IF ~InSeq(event, s.awaited_events) THEN [s EXCEPT !.ret = FALSE]
    ELSE Let(logic_fire_event(c, s, event), LAMBDA s1 :
         IF s1.err # "" \/ ~s1.ret THEN s1
         ELSE IF InSeq(event, s1.awaited_events)
              THEN [s1 EXCEPT !.awaited_events = RemoveFirst(@, event)]
              ELSE Raise(s1, "ValueError"))

\* ------------------------------------------------------------------ update_instance
\* one gate expression of update_instance: when it holds, the event is fired
Reevaluate(c, s, expr, kind, ti, si) ==
    IF s.err # "" \/ expr.k = "none" THEN s
    ELSE Let(execute_mf_plugin_expression(expr, s.instances), LAMBDA v :
         IF v = TypeErr THEN Raise(s, "TypeError")
         ELSE IF ~Truthy(v) THEN s
         ELSE IF ti = 0 THEN Raise(s, "UnboundLocalError")
         ELSE fire_event(c, s, Event(kind, s.task_uuid[ti],
                                     IF si = 0 THEN NoId ELSE s.step_uuid[si], "")))

RECURSIVE update_tasks(_, _, _)
\* for task_api in self.active_tasks (the list may grow and shrink meanwhile)
update_tasks(c, s, i) ==
    IF s.err # "" \/ i > Len(s.active_tasks) THEN s
    ELSE Let(s.active_tasks[i], LAMBDA ti :
         Let(TaskOf(c, c.net.g.task_apis[ti].task), LAMBDA task :
         Let([s EXCEPT !.task_api = ti], LAMBDA s0 :
         Let(Reevaluate(c, s0, task.started_by_expr, "started_by", ti, 0), LAMBDA s1 :
         Let(Reevaluate(c, s1, task.finished_by_expr, "finished_by", ti, 0), LAMBDA s2 :
         update_tasks(c, s2, i + 1))))))

RECURSIVE update_steps(_, _, _)
\* for order_step_api in self.active_order_steps, with task_api as the first
\* loop left it
update_steps(c, s, i) ==
    IF s.err # "" \/ i > Len(c.net.g.order_steps) THEN s
    ELSE Let(StepOf(c, c.net.g.order_steps[i].order_step), LAMBDA os :
         Let(Reevaluate(c, s, os.started_by_expr, "started_by", s.task_api, i),
             LAMBDA s1 :
         Let(Reevaluate(c, s1, os.finished_by_expr, "finished_by", s1.task_api, i),
             LAMBDA s2 :
         update_steps(c, s2, i + 1))))

\* as update_instance, but the gates of the active tasks are not evaluated again
update_instance_steps_only(c, s, instance_name, new_values, now) ==
    IF instance_name \notin DOMAIN s.instances THEN [s EXCEPT !.ret = FALSE]
    ELSE Let([s.instances[instance_name] EXCEPT !.time = Num(now)], LAMBDA stamped :
         Let([a \in DOMAIN stamped |->
                IF a \in DOMAIN new_values THEN new_values[a] ELSE stamped[a]],
             LAMBDA updated :
         Let([s EXCEPT !.instances[instance_name] = updated, !.task_api = 0],
             LAMBDA s1 :
         Let(update_steps(c, s1, 1), LAMBDA s2 :
         IF s2.err # "" THEN s2
         ELSE [Listeners(s2, "instance_updated", 0, 0, 0) EXCEPT !.ret = TRUE]))))

update_instance(c, s, instance_name, new_values, now) ==
    IF instance_name \notin DOMAIN s.instances THEN [s EXCEPT !.ret = FALSE]
    ELSE Let([s.instances[instance_name] EXCEPT !.time = Num(now)], LAMBDA stamped :
         Let([a \in DOMAIN stamped |->
                IF a \in DOMAIN new_values THEN new_values[a] ELSE stamped[a]],
             LAMBDA updated :
         Let([s EXCEPT !.instances[instance_name] = updated, !.task_api = 0],
             LAMBDA s1 :
         Let(update_steps(c, update_tasks(c, s1, 1), 1), LAMBDA s2 :
         IF s2.err # "" THEN s2
         ELSE [Listeners(s2, "instance_updated", 0, 0, 0) EXCEPT !.ret = TRUE]))))

\* Scheduler.fire_event given an event from outside: an instance_update event
\* the PFDL scheduler did not accept is applied with update_instance
Scheduler_fire_event(c, s, event) ==
    Let(fire_event(c, s, event), LAMBDA s1 :
    IF s1.err = "" /\ ~s1.ret /\ event.event_type = "instance_update"
    THEN update_instance(c, s1, event.instance_name, event.new_values, event.now)
    ELSE s1)

\* Scheduler.start(): running, and the production task's start event
start(c, s) ==
    Let([s EXCEPT !.running = TRUE,
                  !.awaited_events = Append(@, START_PRODUCTION_TASK)], LAMBDA s1 :
    Let(fire_event(c, s1, START_PRODUCTION_TASK), LAMBDA s2 :
    IF s2.err # "" THEN s2 ELSE [s2 EXCEPT !.ret = TRUE]))


\* ------------------------------------------------------------------ the parsed process
\* the components of a program file; a program has at most MaxComponents of them
MaxComponents == 3

\* the seven catalogs of process_mf_plugin_component, by the class name of
\* the component
ComponentKinds ==
    {"Struct", "Instance", "Rule", "Task",
     "TransportOrderStep", "MoveOrderStep", "ActionOrderStep"}
OrderStepKinds == {"TransportOrderStep", "MoveOrderStep", "ActionOrderStep"}
ComponentNames == <<"n1", "n2">>

\* what a definition says: its text (version), and for an order step its
\* OnDone task and its StartedBy / FinishedBy expressions ("none" is None)
Body(version, follow_up_task_name, started_by_expr, finished_by_expr) ==
    [version |-> version, follow_up_task_name |-> follow_up_task_name,
     started_by_expr |-> started_by_expr, finished_by_expr |-> finished_by_expr]
Component(kind, name, body) == [kind |-> kind, name |-> name, body |-> body]
NoComponent == Component("", "", Body(0, "", "none", "none"))
OrderStepBodies ==
    {Body(1, "", "none", "none"), Body(2, "n1", "valid", "none"),
     Body(3, "", "invalid", "valid"), Body(4, "", "none", "invalid")}
Components ==
    {Component(kind, "n1", Body(v, "", "none", "none")) :
        kind \in ComponentKinds \ OrderStepKinds, v \in 1..2}
    \cup {Component(kind, ComponentNames[i], body) :
            kind \in OrderStepKinds, i \in 1..2, body \in OrderStepBodies}

\* the result of a validate_process call: what it returned and how often each
\* sub-check was called
NoValidation ==
    [done |-> FALSE, base |-> FALSE, ret |-> FALSE, on_done |-> 0, started_by |-> 0,
     finished_by |-> 0, errors |-> 0]

\* Process(): seven empty catalogs; errors counts the error handler's
\* print_error calls of the tree visitor
NoBuild ==
    [process |-> [kind \in ComponentKinds |-> [n \in {} |-> NoComponent.body]],
     errors |-> 0, component |-> NoComponent, validation |-> NoValidation]

\* the number of components the visitor has processed
Processed(b) ==
    b.errors + Cardinality({<<kind, i>> \in ComponentKinds \X (1..Len(ComponentNames)) :
                               ComponentNames[i] \in DOMAIN b.process[kind]})

\* PFDLTreeVisitor.process_mf_plugin_component, the last-definition-wins variant
process_mf_plugin_component_overwrites(program_component, b) ==
    LET component_type == program_component.kind
    IN  [b EXCEPT !.process[component_type] =
                      Put(@, program_component.name, program_component.body),
                  !.errors = IF program_component.name \in DOMAIN b.process[component_type]
                             THEN @ + 1 ELSE @,
                  !.component = program_component]

\* PFDLTreeVisitor.process_mf_plugin_component
process_mf_plugin_component(program_component, b) ==
    LET component_type == program_component.kind
    IN  IF program_component.name \notin DOMAIN b.process[component_type]
        THEN [b EXCEPT !.process[component_type] =
                           Put(@, program_component.name, program_component.body),
                       !.component = program_component]
        ELSE [b EXCEPT !.errors = @ + 1, !.component = program_component]

\* the base checker's check_expression: whether the expression is well formed
check_expression(expression) == expression = "valid"

\* SemanticErrorChecker.check_on_done; v is the checker: its tasks, the calls
\* counted, and in ret what the call returned
check_on_done(v, order_step) ==
    LET unknown == /\ order_step.follow_up_task_name # ""
                   /\ order_step.follow_up_task_name \notin DOMAIN v.tasks
    IN  [v EXCEPT !.on_done = @ + 1, !.errors = IF unknown THEN @ + 1 ELSE @,
                  !.ret = ~unknown]

\* SemanticErrorChecker.check_started_by
check_started_by(v, task_or_order_step) ==
    LET expression == task_or_order_step.started_by_expr
    IN  [v EXCEPT !.started_by = @ + 1,
                  !.ret = IF expression # "none" THEN check_expression(expression)
                          ELSE TRUE]

\* SemanticErrorChecker.check_finished_by
check_finished_by(v, task_or_order_step) ==
    LET expression == task_or_order_step.finished_by_expr
    IN  [v EXCEPT !.finished_by = @ + 1,
                  !.ret = IF expression # "none" THEN check_expression(expression)
                          ELSE TRUE]

\* check_order_steps with "and" in place of "&": a sub-check that failed ends
\* the checks of its order step
RECURSIVE CheckEachAnd(_, _, _, _)
CheckEachAnd(v, order_steps, i, valid) ==
    IF i > Len(ComponentNames) THEN [v EXCEPT !.ret = valid]
    ELSE IF ComponentNames[i] \notin DOMAIN order_steps
    THEN CheckEachAnd(v, order_steps, i + 1, valid)
    ELSE LET order_step == order_steps[ComponentNames[i]]
             a == check_on_done(v, order_step)
             b == IF ~a.ret THEN a ELSE check_started_by(a, order_step)
             c == IF ~b.ret THEN b ELSE check_finished_by(b, order_step)
         IN  CheckEachAnd(c, order_steps, i + 1, IF ~c.ret THEN FALSE ELSE valid)

check_order_steps_short_circuit(v, order_steps) == CheckEachAnd(v, order_steps, 1, TRUE)

\* the loop of check_order_steps over order_steps.values(), from the i-th name
\* on: the three sub-checks are joined by "&", so each of them is called
RECURSIVE CheckEach(_, _, _, _)
CheckEach(v, order_steps, i, valid) ==
    IF i > Len(ComponentNames) THEN [v EXCEPT !.ret = valid]
    ELSE IF ComponentNames[i] \notin DOMAIN order_steps
    THEN CheckEach(v, order_steps, i + 1, valid)
    ELSE LET order_step == order_steps[ComponentNames[i]]
             a == check_on_done(v, order_step)
             b == check_started_by(a, order_step)
             c == check_finished_by(b, order_step)
         IN  CheckEach(c, order_steps, i + 1,
                       IF ~(a.ret /\ b.ret /\ c.ret) THEN FALSE ELSE valid)

\* SemanticErrorChecker.check_order_steps
check_order_steps(v, order_steps) == CheckEach(v, order_steps, 1, TRUE)

\* SemanticErrorChecker.validate_process; base is what the base checker's
\* validate_process returned
validate_process(b, base) ==
    LET v == [NoValidation EXCEPT !.done = TRUE, !.base = base, !.ret = base]
        w == [tasks |-> b.process["Task"], on_done |-> 0, started_by |-> 0,
              finished_by |-> 0, errors |-> 0, ret |-> TRUE]
        t == check_order_steps(w, b.process["TransportOrderStep"])
        m == check_order_steps(t, b.process["MoveOrderStep"])
        a == check_order_steps(m, b.process["ActionOrderStep"])
    IN  [v EXCEPT !.ret = base /\ t.ret /\ m.ret /\ a.ret, !.on_done = a.on_done,
                  !.started_by = a.started_by, !.finished_by = a.finished_by,
                  !.errors = a.errors]

\* ------------------------------------------------------------------ the state machine
VARIABLES
    cfg,                        \* the process the scheduler was constructed for
    net,                        \* the generator's result: net, callbacks, API lists
    started,                    \* start() has been called
    marking, awaited_events, active_tasks,
    task_uuid, order_uuid, step_uuid, first_loop_iteration,
    uuids_per_task,
    order_step_test_id_counter, task_test_id_counter, uuid_ctr,
    running, loop_counters, timers, instances,
    log, fired, called, assigned,
    consumed,                   \* the events accepted so far
    raised,                     \* some call so far has raised an exception
    repeats,                    \* accepted events applied to the net once more
    last,                       \* the last call: operation, result, exception
    rules,                      \* process.rules
    last_eval,                  \* the last rule call evaluated and its result
    pending,                    \* the event of the fire_event call in progress
    build,                      \* the process the parser builds, and its validation
    relocating                  \* where the caller's thread is suspended in on_order_started

vars == <<cfg, net, started, marking, awaited_events, active_tasks, task_uuid, order_uuid,
          step_uuid, first_loop_iteration, uuids_per_task, order_step_test_id_counter,
          task_test_id_counter, uuid_ctr, running, loop_counters, timers, instances, log,
          fired, called, assigned, consumed, raised, repeats, last, rules, last_eval,
          pending, build, relocating>>

\* the configuration together with what the generator built from it
Ctx == [shape |-> cfg.shape, N |-> cfg.N, M |-> cfg.M, fu |-> cfg.fu, gate |-> cfg.gate,
        w0 |-> cfg.w0, test_ids |-> cfg.test_ids, iters |-> cfg.iters,
        timers |-> cfg.timers, net |-> net, pause |-> 0]

\* the scheduler's state as the record the operators above work on; every call
\* starts with an empty log and no exception
State ==
    [marking |-> marking, awaited_events |-> awaited_events,
     active_tasks |-> active_tasks, task_uuid |-> task_uuid, order_uuid |-> order_uuid,
     step_uuid |-> step_uuid, first_loop_iteration |-> first_loop_iteration,
     uuids_per_task |-> uuids_per_task,
     order_step_test_id_counter |-> order_step_test_id_counter,
     task_test_id_counter |-> task_test_id_counter, uuid_ctr |-> uuid_ctr,
     running |-> running, loop_counters |-> loop_counters, timers |-> timers,
     instances |-> instances,
     log |-> <<>>, fired |-> fired,
     called |-> called, assigned |-> assigned, err |-> "", ret |-> FALSE, task_api |-> 0]

\* the state a call leaves behind
Becomes(s) ==
    /\ marking' = s.marking
    /\ awaited_events' = s.awaited_events
    /\ active_tasks' = s.active_tasks
    /\ task_uuid' = s.task_uuid
    /\ order_uuid' = s.order_uuid
    /\ step_uuid' = s.step_uuid
    /\ first_loop_iteration' = s.first_loop_iteration
    /\ uuids_per_task' = s.uuids_per_task
    /\ order_step_test_id_counter' = s.order_step_test_id_counter
    /\ task_test_id_counter' = s.task_test_id_counter
    /\ uuid_ctr' = s.uuid_ctr
    /\ running' = s.running
    /\ loop_counters' = s.loop_counters
    /\ timers' = s.timers
    /\ instances' = s.instances
    /\ log' = s.log
    /\ fired' = s.fired
    /\ called' = s.called
    /\ assigned' = s.assigned
    /\ raised' = (raised \/ s.err # "")

\* the event names a task or an order step uuids_per_task has no entry for, or
\* has a type the plugin's net does not know
Unresolved(event) ==
    \/ event.event_type \notin {"started_by", "finished_by", "order_step_update"}
    \/ event.task \notin DOMAIN uuids_per_task
    \/ /\ event.order_step # NoId
       /\ event.order_step \notin DOMAIN uuids_per_task[event.task].steps

\* what the caller of the last call saw: the value returned or the exception;
\* of the event given its type and status, whether it was unresolved, whether it
\* had been accepted before; whether the call changed the marking
NoUpdate == [instance_name |-> "", new_values |-> <<>>]
Result(op, s, event, repeated) ==
    [op |-> op, ret |-> s.err = "" /\ s.ret, err |-> s.err,
     event_type |-> event.event_type, status |-> event.status,
     unresolved |-> event # NoEvent /\ event # START_PRODUCTION_TASK /\ Unresolved(event),
     repeated |-> repeated, changed |-> s.marking # marking,
     update |-> IF event.event_type = "instance_update"
                THEN [instance_name |-> event.instance_name,
                      new_values |-> event.new_values]
                ELSE NoUpdate]

\* no rule call has been evaluated
NoEval == [call |-> CallE("", <<>>), v |-> NoneV]

\* the caller's thread is not inside the loop of on_order_started
NoRelocation ==
    [order |-> 0, j |-> 0, si |-> 0, old |-> NoId, task_api_uuid |-> NoId,
     i |-> 0, k |-> 0, log |-> <<>>]

\* the scheduler constructed for one of the processes in configs
InitFor(configs) ==
    /\ cfg \in configs
    /\ started = FALSE
    /\ consumed = {}
    /\ raised = FALSE
    /\ repeats = 0
    /\ last = [op |-> "init", ret |-> FALSE, err |-> "", event_type |-> "",
               status |-> "", unresolved |-> FALSE, repeated |-> FALSE,
               changed |-> FALSE, update |-> NoUpdate]
    /\ net = NetOf(cfg)
    /\ rules = RulesOf(cfg)
    /\ last_eval = NoEval
    /\ pending = NoEvent
    /\ build = NoBuild
    /\ relocating = NoRelocation
    /\ LET s == InitialState(Ctx)
       IN  /\ marking = s.marking
           /\ awaited_events = s.awaited_events
           /\ active_tasks = s.active_tasks
           /\ task_uuid = s.task_uuid
           /\ order_uuid = s.order_uuid
           /\ step_uuid = s.step_uuid
           /\ first_loop_iteration = s.first_loop_iteration
           /\ uuids_per_task = s.uuids_per_task
           /\ order_step_test_id_counter = s.order_step_test_id_counter
           /\ task_test_id_counter = s.task_test_id_counter
           /\ uuid_ctr = s.uuid_ctr
           /\ running = s.running
           /\ loop_counters = s.loop_counters
           /\ timers = s.timers
           /\ instances = s.instances
           /\ log = s.log
           /\ fired = s.fired
           /\ called = s.called
           /\ assigned = s.assigned

Init == InitFor(Configs)

\* scheduler.start()
Start ==
    /\ ~started
    /\ started' = TRUE
    /\ \E s \in {start(Ctx, State)} :
          Becomes(s) /\ last' = Result("start", s, NoEvent, FALSE)
    /\ UNCHANGED <<cfg, net, consumed, repeats, rules, last_eval, pending, build, relocating>>

\* the events a caller submits to the scheduler: the awaited ones, the ones
\* accepted before, an update of a step that may not be awaited yet, and events
\* that name no known task, no known step of a known task, or a type the net
\* does not know
UnknownId == Uuid(-1)
TaskOfStep(c, si) == c.net.g.orders[c.net.g.order_steps[si].order_context].task_context
Statuses == {"moved_to_location", "action_executed"}
LastStep == Len(net.g.order_steps)
SomeEvents ==
    {awaited_events[i] : i \in DOMAIN awaited_events}
    \cup consumed
    \cup {Event("order_step_update", task_uuid[TaskOfStep(Ctx, LastStep)],
                step_uuid[LastStep], "moved_to_location"),
          Event("order_step_update", UnknownId, step_uuid[1], "moved_to_location"),
          Event("order_step_update", task_uuid[1], UnknownId, "moved_to_location"),
          Event("started_by", UnknownId, NoId, ""),
          Event("bogus", task_uuid[1], NoId, "")}

\* scheduler.fire_event(event)
FireEvent(event) ==
    /\ started
    /\ \E s \in {fire_event(Ctx, State, event)} :
          /\ Becomes(s)
          /\ last' = Result("fire_event", s, event, event \in consumed)
          /\ consumed' = IF s.err = "" /\ s.ret THEN consumed \cup {event} ELSE consumed
    /\ UNCHANGED <<cfg, net, started, repeats, rules, last_eval, pending, build, relocating>>

\* scheduler.update_instance(instance_name, new_values), called when
\* time.time() - starting_time is now
InstanceNames == {"I", "X"}
NewValues ==
    {[weight |-> Num(10)], [weight |-> Num(60)], [weight |-> Str(1)], [bogus |-> Num(1)]}

UpdateInstance(instance_name, new_values, now) ==
    /\ started
    /\ \E s \in {update_instance(Ctx, State, instance_name, new_values, now)} :
          /\ Becomes(s)
          /\ last' = [Result("update_instance", s, NoEvent, FALSE) EXCEPT
                         !.update = [instance_name |-> instance_name,
                                     new_values |-> new_values]]
    /\ UNCHANGED <<cfg, net, started, consumed, repeats, rules, last_eval, pending, build, relocating>>

\* scheduler.fire_event(Event("instance_update", ..))
FireInstanceUpdate(instance_name, new_values, now) ==
    /\ started
    /\ \E s \in {Scheduler_fire_event(Ctx, State,
                                       InstanceUpdate(instance_name, new_values, now))} :
          /\ Becomes(s)
          /\ last' = Result("fire_event", s,
                            InstanceUpdate(instance_name, new_values, now), FALSE)
    /\ UNCHANGED <<cfg, net, started, consumed, repeats, rules, last_eval, pending, build, relocating>>

Next ==
    \/ Start
    \/ \E event \in SomeEvents : FireEvent(event)
    \/ \E n \in InstanceNames, v \in NewValues, now \in 0..MaxTime :
          UpdateInstance(n, v, now)
    \/ \E n \in InstanceNames, v \in NewValues, now \in 0..MaxTime :
          FireInstanceUpdate(n, v, now)

Spec == Init /\ [][Next]_vars

\* the scheduler constructed for one of the processes of GateConfigs, started,
\* given events and instance updates
InitGates == InitFor(GateConfigs)
NextGates ==
    \/ Start
    \/ \E event \in SomeEvents : FireEvent(event)
    \/ \E n \in InstanceNames, v \in NewValues, now \in 0..MaxTime :
          UpdateInstance(n, v, now)
SpecGates == InitGates /\ [][NextGates]_vars

\* ------------------------------------------------------------------ building a process
\* the variables of the scheduler, which parsing and validation leave alone
scheduler_vars ==
    <<cfg, net, started, marking, awaited_events, active_tasks, task_uuid, order_uuid,
      step_uuid, first_loop_iteration, uuids_per_task, order_step_test_id_counter,
      task_test_id_counter, uuid_ctr, running, loop_counters, timers, instances, log,
      fired, called, assigned, consumed, raised, repeats, last, rules, last_eval,
      pending, relocating>>

\* visitProgram: the next child of the program is a component and is processed
ProcessComponent(program_component) ==
    /\ ~build.validation.done
    /\ Processed(build) < MaxComponents
    /\ build' = process_mf_plugin_component(program_component, build)
    /\ UNCHANGED scheduler_vars

\* the parsed process is validated
ValidateProcess(base) ==
    /\ ~build.validation.done
    /\ build' = [build EXCEPT !.component = NoComponent,
                              !.validation = validate_process(build, base)]
    /\ UNCHANGED scheduler_vars

InitBuild == InitFor({Config("move", 1, 1, "none", "none", 10, TRUE)})
NextBuild ==
    \/ \E program_component \in Components : ProcessComponent(program_component)
    \/ \E base \in BOOLEAN : ValidateProcess(base)
SpecBuild == InitBuild /\ [][NextBuild]_vars

\* ------------------------------------------------------------------ the net driven directly
\* scheduler.petri_net_logic.fire_event(event): the event applied to the net
\* without the scheduler in front of it
MaxRepeat == 1

LogicFireEvent(event) ==
    /\ started
    /\ event \in consumed => repeats < MaxRepeat
    /\ repeats' = IF event \in consumed THEN repeats + 1 ELSE repeats
    /\ \E s \in {logic_fire_event(Ctx, State, event)} :
          /\ Becomes(s)
          /\ last' = Result("logic_fire_event", s, event, event \in consumed)
          /\ consumed' = IF s.err = "" /\ s.ret THEN consumed \cup {event} ELSE consumed
    /\ UNCHANGED <<cfg, net, started, rules, last_eval, pending, build, relocating>>

\* the events applied to the net: those above, both updates of every order step
\* under the id the step's task carries now, and one under the id that task was
\* built with
RuntimeEvents ==
    SomeEvents
    \cup {Event("order_step_update", task_uuid[TaskOfStep(Ctx, si)], step_uuid[si], st) :
            si \in DOMAIN step_uuid, st \in Statuses}
    \cup {Event("order_step_update", net.g.task_apis[TaskOfStep(Ctx, si)].uuid,
                 step_uuid[si], "moved_to_location") : si \in DOMAIN step_uuid}

NextRuntime ==
    \/ Start
    \/ \E event \in RuntimeEvents : LogicFireEvent(event)

\* the processes the net is driven directly for: one order step of each kind,
\* with and without a called task
InitRuntime ==
    /\ Init
    /\ cfg.shape \in {"call", "move", "action"} \/ (cfg.N = 1 /\ cfg.M = 1)

SpecRuntime == InitRuntime /\ [][NextRuntime]_vars

\* ------------------------------------------------------------------ rules evaluated
\* the rule calls evaluated: positional arguments (the keys of the call's dict)
\* and the named argument weight = 10
Arg(v) == Param(v, LitE(NoneV))
NumE(n) == LitE(Num(n))
RuleCalls ==
    {CallE("isHeavy", <<>>),
     CallE("isHeavy", <<Arg(NumE(10))>>),
     CallE("isHeavy", <<Arg(NumE(60))>>),
     CallE("isHeavy", <<Param(StrE("weight"), NumE(10))>>),
     CallE("heavier", <<Arg(StrE("I"))>>),
     CallE("heavier", <<Arg(StrE("J"))>>),
     CallE("less", <<>>),
     CallE("less", <<Arg(NumE(3))>>),
     CallE("less", <<Arg(NumE(5)), Arg(NumE(3))>>),
     CallE("less", <<Arg(NumE(3)), Arg(NumE(5))>>),
     CallE("less", <<Arg(StrE("heavy")), Arg(NumE(3))>>),
     CallE("less", <<Arg(LitE(Bool(TRUE))), Arg(NumE(3))>>),
     CallE("same", <<Arg(NumE(3)), Arg(NumE(5))>>),
     CallE("same", <<Arg(StrE("heavy")), Arg(NumE(3))>>),
     CallE("outer", <<Arg(NumE(3)), Arg(NumE(5))>>),
     CallE("outer", <<Arg(NumE(5)), Arg(NumE(3))>>),
     CallE("both", <<Arg(NumE(5))>>),
     CallE("both", <<Arg(NumE(3))>>)}

\* evaluate_rule(rule_call, process.instances, process.rules)
EvaluateRule(rule_call) ==
    /\ \E r \in {evaluate_rule(rule_call, instances, rules)} :
          /\ rules' = r.rules
          /\ last_eval' = [call |-> rule_call, v |-> r.v]
    /\ UNCHANGED <<cfg, net, started, marking, awaited_events, active_tasks, task_uuid,
                   order_uuid, step_uuid, first_loop_iteration, uuids_per_task,
                   order_step_test_id_counter, task_test_id_counter, uuid_ctr, running,
                   loop_counters, timers, instances, log, fired, called, assigned,
                   consumed, raised, repeats, last, pending, build, relocating>>

InitRules == InitFor(RuleConfigs)

NextRules == \E rule_call \in RuleCalls : EvaluateRule(rule_call)

SpecRules == InitRules /\ [][NextRules]_vars

\* the events the scheduler awaits
AwaitedEvents == {awaited_events[i] : i \in DOMAIN awaited_events}

\* ------------------------------------------------------------------ timers
\* Scheduler.__init__ starts one threading.Timer per Time instance; when its
\* time has come the timer's thread calls update_instance(name, {"value": True}).
\* Neither fire_event nor update_instance takes a lock, so a call on the
\* caller's thread and the calls of the timer threads overlap: every call is a
\* step that enters it and a step in which its effect takes place, in any order.

\* the caller's thread enters scheduler.fire_event(event)
BeginFireEvent(event) ==
    /\ started
    /\ pending = NoEvent
    /\ pending' = event
    /\ UNCHANGED <<cfg, net, started, marking, awaited_events, active_tasks, task_uuid,
                   order_uuid, step_uuid, first_loop_iteration, uuids_per_task,
                   order_step_test_id_counter, task_test_id_counter, uuid_ctr, running,
                   loop_counters, timers, instances, log, fired, called, assigned,
                   consumed, raised, repeats, last, rules, last_eval, build, relocating>>

\* the caller's fire_event takes effect and returns
EndFireEvent ==
    /\ pending # NoEvent
    /\ relocating = NoRelocation
    /\ pending' = NoEvent
    /\ \E s \in {fire_event(Ctx, State, pending)} :
          /\ Becomes(s)
          /\ last' = Result("fire_event", s, pending, pending \in consumed)
          /\ consumed' = IF s.err = "" /\ s.ret THEN consumed \cup {pending} ELSE consumed
    /\ UNCHANGED <<cfg, net, started, repeats, rules, last_eval, build, relocating>>

\* Timer.run: the time of timer i has come and it has not been cancelled; its
\* thread enters update_instance
TimerFires(i) ==
    /\ timers[i] = "armed"
    /\ timers' = [timers EXCEPT ![i] = "running"]
    /\ UNCHANGED <<cfg, net, started, marking, awaited_events, active_tasks, task_uuid,
                   order_uuid, step_uuid, first_loop_iteration, uuids_per_task,
                   order_step_test_id_counter, task_test_id_counter, uuid_ctr, running,
                   loop_counters, instances, log, fired, called, assigned, consumed,
                   raised, repeats, last, rules, last_eval, pending, build, relocating>>

\* the update_instance of timer i takes effect and the timer's thread ends
TimerReturns(i, now) ==
    /\ timers[i] = "running"
    /\ \E s \in {update_instance(Ctx, State, i, [value |-> Bool(TRUE)], now)} :
          /\ Becomes([s EXCEPT !.timers[i] = "finished"])
          /\ last' = Result("timer", s, NoEvent, FALSE)
    /\ UNCHANGED <<cfg, net, started, consumed, repeats, rules, last_eval, pending, build, relocating>>

InitTimers == InitFor(TimerConfigs)

NextTimers ==
    \/ pending = NoEvent /\ Start
    \/ \E event \in AwaitedEvents : BeginFireEvent(event)
    \/ EndFireEvent
    \/ \E i \in DOMAIN timers : TimerFires(i)
    \/ \E i \in DOMAIN timers, now \in 0..MaxTime : TimerReturns(i, now)

SpecTimers == InitTimers /\ [][NextTimers]_vars

\* ------------------------------------------------------------------ the loop re-entry
\* on_order_started of an order in a loop gives every order step a new id and
\* then moves the step's entry of uuids_per_task; no lock is held meanwhile, so
\* the thread of a timer runs between the two statements as between any others.
\* The processes: Loop iters times { Transport From p1 To d1 } with a Time
\* instance T1.
ReentryConfigs ==
    {[LoopConfig("loop_transport", n, ids) EXCEPT !.timers = 1] :
        n \in 2..MaxIter, ids \in BOOLEAN}

\* the last transition fired in a call, by its log
LastFired(l) ==
    LET F == {n \in 1..Len(l) : l[n].e = "fire"}
        t == l[CHOOSE n \in F : \A m \in F : m <= n].t
    IN  CHOOSE i \in 1..Len(net.g.trans) : net.g.trans[i] = t
\* the position of the order_started callback among those of transition i
OrderStartedAt(i) ==
    CHOOSE k \in 1..Len(net.cb[i]) : net.g.cbs[net.cb[i][k]].fn = "order_started"

\* on_order_started from the statement that moves the entry of step r.j on, and
\* then what the calls it returns to still do: the remaining callbacks of the
\* transition, the rest of evaluate_petri_net, and the end of fire_event
resume_order_started(c, s, r, event) ==
    Let(c.net.g.orders[r.order], LAMBDA order_api :
    Let(new_step_uuids(c, relocate_entry(s, r.task_api_uuid, r.old, s.step_uuid[r.si]),
                       order_api.order.pickup \o order_api.order.delivery,
                       r.j + 1, r.task_api_uuid), LAMBDA s2 :
    Let(IF s2.err # "" THEN s2 ELSE Listeners(s2, "order_started", 0, r.order, 0),
        LAMBDA s3 :
    Let(evaluate_petri_net(c, run_callbacks(c, s3, c.net.cb[r.i], r.k + 1)), LAMBDA s4 :
    IF s4.err # "" THEN s4
    ELSE IF InSeq(event, s4.awaited_events)
         THEN [s4 EXCEPT !.ret = TRUE, !.awaited_events = RemoveFirst(@, event)]
         ELSE Raise([s4 EXCEPT !.ret = TRUE], "ValueError")))))

\* the caller's fire_event runs up to the point where on_order_started has given
\* the j-th order step of the order its new id
EnterRelocation(j) ==
    /\ pending # NoEvent
    /\ relocating = NoRelocation
    /\ \E s \in {fire_event([Ctx EXCEPT !.pause = j], State, pending)} :
          /\ s.err = "paused"
          /\ Becomes([s EXCEPT !.err = ""])
          /\ LET i == LastFired(s.log)
                 k == OrderStartedAt(i)
                 order == net.g.cbs[net.cb[i][k]].order
                 order_api == net.g.orders[order]
                 names == order_api.order.pickup \o order_api.order.delivery
                 si == StepApiByName(Ctx, names[j])
             IN  relocating' =
                    [order |-> order, j |-> j, si |-> si, old |-> step_uuid[si],
                     task_api_uuid |-> s.task_uuid[order_api.task_context],
                     i |-> i, k |-> k, log |-> s.log]
    /\ UNCHANGED <<cfg, net, started, consumed, repeats, last, rules, last_eval,
                   pending, build>>

\* the caller's thread goes on: the entry is moved, and fire_event returns
LeaveRelocation ==
    /\ relocating # NoRelocation
    /\ pending' = NoEvent
    /\ relocating' = NoRelocation
    /\ \E s \in {resume_order_started(Ctx, [State EXCEPT !.log = relocating.log],
                                      relocating, pending)} :
          /\ Becomes(s)
          /\ last' = Result("fire_event", s, pending, pending \in consumed)
          /\ consumed' = IF s.err = "" /\ s.ret THEN consumed \cup {pending} ELSE consumed
    /\ UNCHANGED <<cfg, net, started, repeats, rules, last_eval, build>>

InitReentry == InitFor(ReentryConfigs)

NextReentry ==
    \/ pending = NoEvent /\ Start
    \/ \E event \in AwaitedEvents : BeginFireEvent(event)
    \/ EndFireEvent
    \/ \E j \in 1..2 : EnterRelocation(j)
    \/ LeaveRelocation
    \/ \E i \in DOMAIN timers : TimerFires(i)
    \/ \E i \in DOMAIN timers, now \in 0..MaxTime : TimerReturns(i, now)

SpecReentry == InitReentry /\ [][NextReentry]_vars

\* ------------------------------------------------------------------ updates that carry a time
\* update_instance with new values that may name the attribute "time" every
\* instance has, on the transport processes with a gated step
StampConfigs == {c \in Configs : c.shape = "transport" /\ c.gate # "none"}
StampValues == {[weight |-> Num(10)], [weight |-> Num(60)], [time |-> Num(MaxTime + 1)]}

InitStamp == InitFor(StampConfigs)

NextStamp ==
    \/ Start
    \/ \E event \in AwaitedEvents : FireEvent(event)
    \/ \E new_values \in StampValues, now \in 0..MaxTime :
          UpdateInstance("I", new_values, now)

SpecStamp == InitStamp /\ [][NextStamp]_vars

\* ------------------------------------------------------------------ every awaited event is supplied
\* The processes without a loop, started and given the events they await, as in
\* check_for_finish: start() is called, and as long as an event is awaited one of
\* the awaited events is supplied.
LiveConfigs == Configs \cup GateConfigs

InitLive == InitFor(LiveConfigs)

\* start() is called, and fire_event, once entered, returns
StartCalled == ~started /\ started' = TRUE
FireEventReturns == pending # NoEvent /\ pending' = NoEvent

NextLive ==
    \/ pending = NoEvent /\ Start
    \/ \E event \in AwaitedEvents : BeginFireEvent(event)
    \/ EndFireEvent

\* the caller starts the scheduler and goes on supplying awaited events as
\* long as there are any; every call of fire_event returns
SpecLive ==
    /\ InitLive
    /\ [][NextLive]_vars
    /\ WF_started(StartCalled)
    /\ WF_vars(\E event \in AwaitedEvents : BeginFireEvent(event))
    /\ WF_pending(FireEventReturns)

\* ------------------------------------------------------------------ completion events in any order
\* A transport order whose completion events (moved_to_location and
\* action_executed of its steps) are applied to the net with
\* PetriNetLogic.fire_event, each once, in any order.
CommuteConfigs ==
    {Config("transport", n, m, "none", "none", 10, ids) :
        n \in 1..MaxPickup, m \in 1..MaxDelivery, ids \in BOOLEAN}
StepEvent(si, status) ==
    Event("order_step_update", task_uuid[TaskOfStep(Ctx, si)], step_uuid[si], status)
CompletionEvents(S) == {StepEvent(si, status) : si \in S, status \in Statuses}

InitCommute == InitFor(CommuteConfigs)

NextCommute ==
    \/ Start
    \/ \E event \in CompletionEvents(DOMAIN step_uuid) \ consumed : LogicFireEvent(event)

SpecCommute == InitCommute /\ [][NextCommute]_vars

\* ------------------------------------------------------------------ the processes with a loop
\* the scheduler constructed for a process with a loop, started, and given the
\* events it awaits
InitLoop == InitFor(LoopConfigs)

NextLoop ==
    \/ Start
    \/ \E event \in AwaitedEvents : FireEvent(event)

SpecLoop == InitLoop /\ [][NextLoop]_vars


\* ------------------------------------------------------------------ observations
\* the position of a transition in the net, and what has happened so far
TransIdx(t) == CHOOSE i \in 1..Len(net.g.trans) : net.g.trans[i] = t
HasTransition(t) == \E i \in 1..Len(net.g.trans) : net.g.trans[i] = t
\* how often place p has been given a token by a transition
RECURSIVE SumFired(_, _)
SumFired(p, i) ==
    IF i = 0 THEN 0
    ELSE SumFired(p, i - 1) + (IF p \in net.post[i] THEN fired[i] ELSE 0)
Produced(p) == SumFired(p, Len(net.g.trans))
\* how often a handler has been called for an API object
RECURSIVE SumCalled(_, _, _, _, _)
SumCalled(fn, task, order, step, k) ==
    IF k = 0 THEN 0
    ELSE SumCalled(fn, task, order, step, k - 1)
         + (IF /\ net.g.cbs[k].fn = fn
               /\ task \in {0, net.g.cbs[k].task}
               /\ order \in {0, net.g.cbs[k].order}
               /\ step \in {0, net.g.cbs[k].step}
            THEN called[k] ELSE 0)
Called(fn, task, order, step) == SumCalled(fn, task, order, step, Len(net.g.cbs))
Marked(p) == p \in net.g.places /\ marking[p] > 0

Orders == 1..Len(net.g.orders)
Steps == 1..Len(net.g.order_steps)
TransportOrders == {oi \in Orders : net.g.orders[oi].order.kind = "transport"}
StepsNamed(oi, names) ==
    {si \in Steps : /\ net.g.order_steps[si].order_context = oi
                    /\ InSeq(net.g.order_steps[si].order_step, names)}
Pickups(oi) == StepsNamed(oi, net.g.orders[oi].order.pickup)
Deliveries(oi) == StepsNamed(oi, net.g.orders[oi].order.delivery)
Started(si) == <<"started", "step", si>>
Finished(si) == <<"finished", "step", si>>
WaitingForStartedBy(si) == <<"Waiting for StartedBy", "step", si>>
SyncTransition(oi) == TransIdx(<<"sync transition", "order", oi>>)


\* ------------------------------------------------------------------ properties
\* C1: in a transport order no delivery step's start place, and no start-gate
\* waiting place of a delivery step, holds a token unless every pickup step of
\* the order has produced its finished token; the order's synchronizing
\* transition has every pickup step's finished place as an input place and has
\* fired only if every pickup step has produced its finished token.
C1_Barrier ==
    \A oi \in TransportOrders :
        LET synchronized == \A p \in Pickups(oi) : Produced(Finished(p)) >= 1
        IN  /\ \A d \in Deliveries(oi) :
                  Marked(Started(d)) \/ Marked(WaitingForStartedBy(d)) => synchronized
            /\ \A p \in Pickups(oi) : Finished(p) \in net.pre[SyncTransition(oi)]
            /\ fired[SyncTransition(oi)] >= 1 => synchronized

\* two pickup steps, one finished and waiting at the barrier, the other not, and
\* no delivery step started
C1_Witness ==
    /\ cfg.shape = "transport" /\ cfg.N = 2
    /\ \E p, q \in Pickups(1) :
          /\ marking[Finished(p)] = 1
          /\ Produced(Finished(q)) = 0
    /\ \A d \in Deliveries(1) : ~Marked(Started(d))

\* C2: the order-finished event of a transport order is not emitted before all
\* of the order's delivery steps have finished.
C2_OrderFinishedAfterAllDeliveries ==
    \A oi \in TransportOrders :
        Called("order_finished", 0, oi, 0) >= 1 =>
            \A d \in Deliveries(oi) : Produced(Finished(d)) >= 1

\* C3: while a pickup completion of a transport order is missing the
\* order-finished handler has not been called for the order, and once all pickup
\* and all delivery steps have finished it has been called exactly once.
C3_OrderFinishedOnce ==
    \A oi \in TransportOrders :
        /\ (\E p \in Pickups(oi) : Produced(Finished(p)) = 0) =>
                Called("order_finished", 0, oi, 0) = 0
        /\ (\A x \in Pickups(oi) \cup Deliveries(oi) : Produced(Finished(x)) >= 1) =>
                Called("order_finished", 0, oi, 0) = 1

\* C4: a moved_to_location update that was accepted before (its token has been
\* consumed) returns false when applied again and leaves the marking unchanged.
C4_AppliedAgain ==
    /\ last.op \in {"fire_event", "logic_fire_event"}
    /\ last.status = "moved_to_location"
    /\ last.repeated
    => ~last.ret /\ last.err = "" /\ ~last.changed

\* the moved_to_location update of an order step has been accepted, and the same
\* event is applied once more
C4_Witness ==
    /\ last.op = "logic_fire_event"
    /\ last.status = "moved_to_location"
    /\ last.repeated

\* C5: applying an event whose task id or order-step id has no entry in
\* uuids_per_task, or whose type is none of started_by, finished_by and
\* order_step_update, raises nothing, returns False and leaves the marking
\* unchanged.
C5_UnresolvedIsNoOp ==
    last.op = "logic_fire_event" /\ last.unresolved
    => last.err = "" /\ ~last.ret /\ ~last.changed

\* C6: while the token of a start-gated task is parked in the gate's waiting
\* place, an update_instance call under which the gate expression is true fires
\* the gate's transition and calls task-started before it returns, and one under
\* which the expression is false leaves the marking unchanged.
Tasks == 1..Len(net.g.task_apis)
GatedTasks ==
    {ti \in Tasks : TaskOf(Ctx, net.g.task_apis[ti].task).started_by_expr.k # "none"}
TaskGateWaiting(ti) == <<"Waiting for StartedBy", "task", ti>>
HoldsAfterCall(ti) ==
    Truthy(execute_mf_plugin_expression(
              TaskOf(Ctx, net.g.task_apis[ti].task).started_by_expr, instances'))
C6_GateRoundTrip ==
    [][\A ti \in GatedTasks :
          /\ marking[TaskGateWaiting(ti)] = 1
          /\ ~raised
          /\ last'.op = "update_instance" /\ last'.err = ""
          => /\ HoldsAfterCall(ti) =>
                  /\ marking'[TaskGateWaiting(ti)] = 0
                  /\ fired'[TransIdx(<<"StartedBy transition", "task", ti>>)]
                        = fired[TransIdx(<<"StartedBy transition", "task", ti>>)] + 1
                  /\ \E i \in DOMAIN log' : /\ log'[i].e = "task_started"
                                            /\ log'[i].task = ti
                  /\ last'.ret
             /\ ~HoldsAfterCall(ti) => marking' = marking
      ]_vars

\* the gate was closed when the task was called, and an update_instance call has
\* fired the gate's transition
C6_Witness ==
    /\ cfg.gate = "task_start" /\ cfg.w0 = 10
    /\ last.op = "update_instance" /\ last.ret
    /\ \E i \in DOMAIN log : log[i].t = <<"StartedBy transition", "task", 2>>
    /\ marking[TaskGateWaiting(2)] = 0

\* C7: once every awaited event has been applied (none is awaited any more, and
\* no call has failed), the root task's finished place holds one token and every
\* other place holds none.
FinalMarking == [p \in net.g.places |-> IF p = task_finished_uuid THEN 1 ELSE 0]
FollowUpSteps ==
    {si \in Steps : StepOf(Ctx, net.g.order_steps[si].order_step).follow_up_task_name # ""}
FollowUpTask(si) ==
    CHOOSE ti \in Tasks :
        net.g.task_apis[ti].task
            = StepOf(Ctx, net.g.order_steps[si].order_step).follow_up_task_name
Downstream(si) ==
    LET oi == net.g.order_steps[si].order_context
    IN  IF si \in Pickups(oi)
        THEN {Started(d) : d \in Deliveries(oi)}
             \cup {WaitingForStartedBy(d) : d \in Deliveries(oi)}
        ELSE UNION {net.post[i] : i \in {j \in 1..Len(net.g.trans) :
                                            Finished(si) \in net.pre[j]}}
C9_FollowUpFirst ==
    \A si \in FollowUpSteps :
        /\ Produced(Finished(si)) >= 1 =>
                Called("task_started", FollowUpTask(si), 0, 0) >= 1
        /\ \A p \in Downstream(si) \cap net.g.places :
                Produced(p) >= 1 => Called("task_finished", FollowUpTask(si), 0, 0) >= 1

\* C10: the ids ever given to task, order and order-step API objects are
\* pairwise distinct: an id belongs to one object only.
C10_IdsDistinct ==
    \A a, b \in assigned : a.id = b.id => a.kind = b.kind /\ a.idx = b.idx


\* ------------------------------------------------------------------ orders in a loop
LoopOrders == {oi \in Orders : net.g.orders[oi].in_loop}
StepsOfOrder(oi) == {si \in Steps : net.g.order_steps[si].order_context = oi}
\* the number of different ids an API object has carried so far
IdsOf(kind, idx) == Cardinality({a \in assigned : a.kind = kind /\ a.idx = idx})
OrderStarts(oi) == Called("order_started", 0, oi, 0)

\* C11: for an order in a loop body (transport, move or action), the first
\* order-started keeps the ids the order and its steps were built with, every
\* later order-started gives the order and each of its own steps one fresh id,
\* and no order-started handler ends with an exception.
C11_LoopIds ==
    /\ ~raised
    /\ \A oi \in LoopOrders :
          /\ OrderStarts(oi) <= 1 =>
                /\ order_uuid[oi] = net.g.orders[oi].uuid
                /\ \A si \in StepsOfOrder(oi) : step_uuid[si] = net.g.order_steps[si].uuid
          /\ IdsOf("order", oi) = IF OrderStarts(oi) <= 1 THEN 1 ELSE OrderStarts(oi)
          /\ \A si \in StepsOfOrder(oi) :
                IdsOf("step", si) = IF OrderStarts(oi) <= 1 THEN 1 ELSE OrderStarts(oi)


\* ------------------------------------------------------------------ the activation index
\* the processes in which ids are replaced at run time: called and follow-up
\* tasks (on_task_started) and orders in a loop (on_order_started)
RelocationConfigs ==
    LoopConfigs
    \cup {c \in Configs : c.shape = "call" \/ (c.fu # "none" /\ c.N = 1 /\ c.M = 1)}
    \cup {Config("call", 0, 0, "none", "none", 10, FALSE)}

InitRelocation == InitFor(RelocationConfigs)

SpecRelocation == InitRelocation /\ [][Next]_vars

StepsOfTask(ti) == {si \in Steps : TaskOfStep(Ctx, si) = ti}
\* the places the generator recorded for order step si
BuiltEntry(si) ==
    net.g.uuids_per_task[net.g.task_apis[TaskOfStep(Ctx, si)].uuid]
        .steps[net.g.order_steps[si].uuid]

C13_AbortedUpdateChangesNothing ==
    [][last'.op = "update_instance" /\ last'.err = "TypeError"
       => /\ instances' = instances
          /\ marking' = marking
          /\ awaited_events' = awaited_events
          /\ active_tasks' = active_tasks
          /\ uuids_per_task' = uuids_per_task]_vars


\* ------------------------------------------------------------------ rule evaluation
\* the Python type of the i-th argument of the last rule call
ArgType(call, i) == IF call.params[i].key.k = "str" THEN "str" ELSE call.params[i].key.v.t
\* the number bound to the i-th parameter of rule less by the last call
BoundToLess(call, i) == IF i <= Len(call.params) THEN call.params[i].key.v.n ELSE i

\* C14: a binary operator applied to operands of incompatible types (a string
\* and a number) ends the evaluation with a type error, which reaches the
\* caller of evaluate_rule; the expression never evaluates to a value instead.
C14_TypeErrorRaised ==
    [][/\ rules = RulesOf(cfg)
       /\ last_eval'.call.name \in {"less", "same"}
       /\ Len(last_eval'.call.params) = 2
       /\ {ArgType(last_eval'.call, 1), ArgType(last_eval'.call, 2)} = {"str", "num"}
       => last_eval'.v = TypeErr]_vars

\* C15: evaluate_rule binds the i-th argument of the call to the i-th declared
\* parameter and the default to every parameter behind the arguments given: for
\* isHeavy(weight = 100) { weight > 50 } the call isHeavy() is true and the calls
\* isHeavy(10) and isHeavy(weight = 10) are false, and less(a = 1, b = 2) { a < b }
\* called with numbers compares the values bound to a and b.
C15_RuleBinding ==
    /\ last_eval.call = CallE("isHeavy", <<>>) => last_eval.v = Bool(TRUE)
    /\ last_eval.call \in {CallE("isHeavy", <<Arg(NumE(10))>>),
                           CallE("isHeavy", <<Param(StrE("weight"), NumE(10))>>)}
          => last_eval.v = Bool(FALSE)
    /\ /\ last_eval.call.name = "less"
       /\ \A i \in DOMAIN last_eval.call.params : ArgType(last_eval.call, i) = "num"
       => last_eval.v = Bool(BoundToLess(last_eval.call, 1) < BoundToLess(last_eval.call, 2))

\* C16: evaluation is stateless: a call of evaluate_rule leaves every stored
\* rule body as it was, and its result is the one the rules as parsed give for
\* the call's own arguments, whatever was evaluated before.
C16_EvaluationIsStateless ==
    [][/\ rules' = rules
       /\ last_eval'.call.name # ""
          => last_eval'.v = evaluate_rule(last_eval'.call, instances, RulesOf(cfg)).v]_vars


\* ------------------------------------------------------------------ timers and threads
TimerRunning(i) == timers[i] = "running"

\* C17: cascades are serialized: while the update_instance of a timer runs on
\* the timer's thread, no fire_event or update_instance of another thread is in
\* progress.
C17_CascadesSerialized ==
    \A i \in DOMAIN timers :
        TimerRunning(i) =>
            /\ pending = NoEvent
            /\ \A j \in DOMAIN timers \ {i} : ~TimerRunning(j)

\* C18: once the root task has finished (running is false again), every timer
\* that had not fired is cancelled, so that no timer fires afterwards.
C18_TimersCancelled ==
    started /\ ~running => \A i \in DOMAIN timers : timers[i] # "armed"

\* the root task has finished while a timer was still waiting
C18_Witness ==
    /\ started /\ ~running /\ ~raised
    /\ Marked(task_finished_uuid)
    /\ \E i \in DOMAIN timers : timers[i] = "cancelled"


\* ------------------------------------------------------------------ instance updates
Known(instance_name) == instance_name \in DOMAIN instances
\* the attributes of new_values the instance has
Declared(u) == (DOMAIN u.new_values) \cap (DOMAIN instances[u.instance_name])

\* C19: fire_event with an instance_update event, which the net does not
\* resolve, applies update_instance: it raises nothing and returns True for a
\* known instance, whose attributes then have the new values, and False for an
\* unknown one.
C19_InstanceUpdateApplied ==
    [][last'.op = "fire_event" /\ last'.event_type = "instance_update"
       => /\ last'.err = ""
          /\ last'.ret <=> Known(last'.update.instance_name)
          /\ Known(last'.update.instance_name) =>
                \A a \in Declared(last'.update) :
                    instances'[last'.update.instance_name][a] = last'.update.new_values[a]]_vars

\* C20: update_instance returns True exactly when the instance is known; for an
\* unknown instance it returns False and changes no attribute and no token and
\* calls no listener; a key of new_values the instance does not have is not
\* added to it and does not make the call fail.
C20_UpdateInstanceResult ==
    [][last'.op = "update_instance"
       => /\ last'.err = ""
          /\ last'.ret <=> Known(last'.update.instance_name)
          /\ ~Known(last'.update.instance_name) =>
                /\ instances' = instances /\ marking' = marking
                /\ awaited_events' = awaited_events /\ log' = <<>>
          /\ \A n \in DOMAIN instances : DOMAIN instances'[n] = DOMAIN instances[n]]_vars


\* ------------------------------------------------------------------ gates
\* the "satisfied" places of the gates of the net, and of a gate its waiting
\* place, the transitions that take its token, and its expression
GatePlaces ==
    {p \in net.g.places : p[1] \in {"StartedBy satisfied", "FinishedBy satisfied"}}
IsStartGate(S) == S[1] = "StartedBy satisfied"
WaitingOf(S) ==
    <<IF IsStartGate(S) THEN "Waiting for StartedBy" ELSE "Waiting for FinishedBy",
      S[2], S[3]>>
Guards(S) == {i \in 1..Len(net.g.trans) : WaitingOf(S) \in net.pre[i]}
GatedObject(S) ==
    IF S[2] = "task" THEN TaskOf(Ctx, net.g.task_apis[S[3]].task)
    ELSE StepOf(Ctx, net.g.order_steps[S[3]].order_step)
GateExprOf(S) ==
    IF IsStartGate(S) THEN GatedObject(S).started_by_expr
    ELSE GatedObject(S).finished_by_expr
GateHolds(S, inst) ==
    LET v == execute_mf_plugin_expression(GateExprOf(S), inst)
    IN  v # TypeErr /\ Truthy(v)
\* how many tokens the place was given from outside the net during a call with
\* the log l
TokensIn(l, S) == Cardinality({i \in DOMAIN l : l[i].e = "token" /\ l[i].t = S})

\* C21: as long as no call has raised, update_instance gives a gate's
\* "satisfied" place a token only when a token is parked in the gate's waiting
\* place and the gate's expression, false before the call, is true with the new
\* values, and then one token only; an expression that is true for a task or
\* order step that has not reached the gate, or has passed it, adds no token to
\* the "satisfied" place.
C21_OnlyParkedGates ==
    [][last'.op = "update_instance" /\ ~raised'
       => \A S \in GatePlaces :
             /\ TokensIn(log', S) > 0 =>
                   /\ marking[WaitingOf(S)] >= 1
                   /\ GateHolds(S, instances')
                   /\ ~GateHolds(S, instances)
                   /\ TokensIn(log', S) = 1
             /\ marking[WaitingOf(S)] = 0 => marking'[S] = marking[S]]_vars

\* C22: when an update_instance call makes the expression of the start or
\* finish gate of an order step true while the step's token is parked in the
\* gate's waiting place (and no call has raised before), the call raises
\* nothing and the step passes the gate in that call: the waiting place is
\* empty afterwards and the gate's transition has fired once more.
C22_ParkedStepAdvances ==
    [][last'.op = "update_instance" /\ ~raised
       => \A S \in GatePlaces :
             /\ S[2] = "step"
             /\ marking[WaitingOf(S)] >= 1
             /\ GateHolds(S, instances')
             => /\ last'.err = ""
                /\ marking'[WaitingOf(S)] = 0
                /\ \A i \in Guards(S) : fired'[i] = fired[i] + 1]_vars

\* ------------------------------------------------------------------ the active tasks
Occurrences(seq, x) == Cardinality({i \in DOMAIN seq : seq[i] = x})

\* C23: as long as no call has raised, active_tasks holds every task activation
\* at most once, and none for which the task-finished handler has run.
C23_ActiveTasksRegistry ==
    ~raised =>
        \A ti \in Tasks :
            /\ Occurrences(active_tasks, ti) <= 1
            /\ Called("task_finished", ti, 0, 0) >= 1 => ~InSeq(ti, active_tasks)

\* ------------------------------------------------------------------ duplicates

\* C24: a component whose name is already in the catalog of its kind adds one
\* error and leaves every catalog as it was, so the first definition stays; a
\* component with a new name is stored under its name without an error; and
\* either way the visitor goes on to the next component (nothing is raised,
\* the catalogs stay those of the seven kinds)
C24_DuplicateReportedFirstKept ==
    [][(build' # build /\ ~build'.validation.done) =>
        LET c == build'.component
        IN  /\ c \in Components
            /\ DOMAIN build'.process = ComponentKinds
            /\ IF c.name \in DOMAIN build.process[c.kind]
               THEN /\ build'.errors = build.errors + 1
                    /\ build'.process = build.process
               ELSE /\ build'.errors = build.errors
                    /\ build'.process[c.kind] = Put(build.process[c.kind], c.name, c.body)
                    /\ \A kind \in ComponentKinds \ {c.kind} :
                          build'.process[kind] = build.process[kind]]_vars

\* a second definition of move order step n1 was reported, the first one is
\* still the catalog's, and a component processed before or after it is stored
C24_Witness ==
    /\ build.errors = 1
    /\ build.component.kind = "MoveOrderStep"
    /\ build.component.name = "n1"
    /\ build.component.body # build.process["MoveOrderStep"]["n1"]
    /\ Processed(build) = 3

\* ------------------------------------------------------------------ validation
OrderStepsOf(b) ==
    {<<kind, i>> \in OrderStepKinds \X (1..Len(ComponentNames)) :
        ComponentNames[i] \in DOMAIN b.process[kind]}
OrderStepAt(b, ki) == b.process[ki[1]][ComponentNames[ki[2]]]
OnDoneKnown(b, order_step) ==
    \/ order_step.follow_up_task_name = ""
    \/ order_step.follow_up_task_name \in DOMAIN b.process["Task"]
ExprValid(expression) == expression \in {"none", "valid"}

\* C25: validate_process calls check_on_done, check_started_by and
\* check_finished_by once for every order step of the three catalogs, whatever
\* the earlier sub-checks returned, and returns True exactly when the base
\* validation and every one of these sub-checks returned True
C25_EverySubCheckRuns ==
    build.validation.done =>
        LET n == Cardinality(OrderStepsOf(build))
        IN  /\ build.validation.on_done = n
            /\ build.validation.started_by = n
            /\ build.validation.finished_by = n
            /\ build.validation.ret <=>
                  /\ build.validation.base
                  /\ \A ki \in OrderStepsOf(build) :
                        LET order_step == OrderStepAt(build, ki)
                        IN  /\ OnDoneKnown(build, order_step)
                            /\ ExprValid(order_step.started_by_expr)
                            /\ ExprValid(order_step.finished_by_expr)

\* a process whose first order step fails its first sub-check was validated:
\* the later sub-checks and the later order steps were checked all the same
C25_Witness ==
    /\ build.validation.done
    /\ ~build.validation.ret
    /\ build.validation.base
    /\ Cardinality(OrderStepsOf(build)) = 2
    /\ build.validation.errors = 1
    /\ build.validation.finished_by = 2

\* ------------------------------------------------------------------ the joins of a step
StepLetter(si) == net.g.order_steps[si].order_step[1]
IsTransportStep(si) == StepLetter(si) \in {"p", "d"}
IsActionStep(si) == StepLetter(si) \in {"a", "f"}
MovedTo(si) == <<"Moved to", "step", si>>
ActionExecuted(si) == <<"Action executed", "step", si>>
WaitingForAction(si) == <<"Waiting for action", "step", si>>
WaitingForFinishedBy(si) == <<"Waiting for FinishedBy", "step", si>>
FinishedBySatisfied(si) == <<"FinishedBy satisfied", "step", si>>
FirstTransition(si) == TransIdx(<<"first transition", "step", si>>)
LastTransition(si) ==
    IF IsTransportStep(si) THEN TransIdx(<<"last transition", "step", si>>)
    ELSE FirstTransition(si)
FinishGated(si) == FinishedBySatisfied(si) \in net.g.places
Producers(p) == {i \in 1..Len(net.g.trans) : p \in net.post[i]}
IsEnabled(i) == \A p \in net.pre[i] : marking[p] >= 1

\* C26 as stated, for the steps without a FinishedBy gate: the finished place
\* is the output of one transition, the join of the started place and of the
\* place of the step's one completion event ("Moved to" for a move and a
\* transport step, "Action executed" for an action step), and that join fires
\* as soon as both hold a token
C26_OneCompletionToken ==
    \A si \in Steps :
        ~FinishGated(si) =>
            \E i \in 1..Len(net.g.trans) :
                /\ Producers(Finished(si)) = {i}
                /\ net.pre[i] = {Started(si),
                                 IF IsActionStep(si) THEN ActionExecuted(si)
                                 ELSE MovedTo(si)}
                /\ ~raised => ~IsEnabled(i)

\* C26, amended: the finished place is the output of the step's last
\* transition only, or of the FinishedBy transition that follows it when the
\* step has a FinishedBy gate. For a move step the last transition is the join
\* of started and "Moved to", for an action step of started and "Action
\* executed". A transport step has two joins: the first takes started and
\* "Moved to" and alone fills "Waiting for action", the last takes "Waiting
\* for action" and "Action executed". A join fires as soon as both its places
\* hold a token, and the finished place has received no more tokens than the
\* last join has fired.
C26_FinishedAfterJoins ==
    \A si \in Steps :
        LET ft == FirstTransition(si)
            lt == LastTransition(si)
        IN  /\ net.pre[ft] = {Started(si),
                                 IF IsActionStep(si) THEN ActionExecuted(si)
                                 ELSE MovedTo(si)}
            /\ IsTransportStep(si) =>
                  /\ net.post[ft] = {WaitingForAction(si)}
                  /\ Producers(WaitingForAction(si)) = {ft}
                  /\ net.pre[lt] = {WaitingForAction(si), ActionExecuted(si)}
            /\ IF FinishGated(si)
               THEN LET t == TransIdx(<<"FinishedBy transition", "step", si>>)
                    IN  /\ net.post[lt] = {WaitingForFinishedBy(si)}
                        /\ Producers(WaitingForFinishedBy(si)) = {lt}
                        /\ Producers(Finished(si)) = {t}
                        /\ net.pre[t] = {WaitingForFinishedBy(si), FinishedBySatisfied(si)}
                        /\ Produced(Finished(si)) = fired[t]
                        /\ fired[t] <= fired[lt]
                        /\ ~raised => ~IsEnabled(t)
               ELSE /\ Producers(Finished(si)) = {lt}
                    /\ Produced(Finished(si)) = fired[lt]
            /\ fired[lt] <= fired[ft]
            /\ ~raised => ~IsEnabled(ft) /\ ~IsEnabled(lt)

\* a transport step has finished: both its joins have fired
C26_Witness ==
    \E si \in Steps :
        /\ IsTransportStep(si)
        /\ fired[FirstTransition(si)] = 1
        /\ Produced(Finished(si)) = 1
        /\ ~raised

\* ------------------------------------------------------------------ the end of a task
\* the task activations created by a task call
CalledTasks == {ti \in Tasks : net.g.task_apis[ti].task_context # 0}

\* C27: for every task activation created by a task call the task-finished
\* handler has been invoked at most once, it has been invoked only when every
\* order step of the task's orders (for a transport order: every delivery
\* step too) has produced its finished token, and, as long as no call has
\* raised, it has been invoked once all of them have and the task has no
\* FinishedBy gate left to pass.
C27_TaskFinishedOnce ==
    \A ti \in CalledTasks :
        LET n == Called("task_finished", ti, 0, 0)
            completed == \A si \in StepsOfTask(ti) : Produced(Finished(si)) >= 1
        IN  /\ n <= 1
            /\ n >= 1 => completed
            /\ (/\ ~raised
                /\ completed
                /\ TaskOf(Ctx, net.g.task_apis[ti].task).finished_by_expr.k = "none")
               => n = 1

\* ------------------------------------------------------------------ reaching a gate
GateEvent(S) == IF IsStartGate(S) THEN "started_by" ELSE "finished_by"
\* the callbacks that call on_started_by / on_finished_by for the gate
GateCallbacks(S) ==
    {k \in 1..Len(net.g.cbs) :
        /\ net.g.cbs[k].fn = GateEvent(S)
        /\ IF S[2] = "task" THEN net.g.cbs[k].task = S[3] /\ net.g.cbs[k].step = 0
           ELSE net.g.cbs[k].step = S[3]}
RECURSIVE SumOf(_, _)
SumOf(f, K) == IF K = {} THEN 0 ELSE LET k == CHOOSE x \in K : TRUE IN f[k] + SumOf(f, K \ {k})
\* how often the gate's listeners were notified during a call with the log l
Notified(l, S) ==
    Cardinality({i \in DOMAIN l :
                    /\ l[i].e = GateEvent(S)
                    /\ IF S[2] = "task" THEN l[i].task = S[3] /\ l[i].step = 0
                       ELSE l[i].step = S[3]})

\* C28: in a call that raises nothing, a gate whose handler (on_started_by /
\* on_finished_by) is called is reached once; if its expression is true, the
\* gate's transition fires in the same call, the waiting place is empty and the
\* "satisfied" place holds no more tokens than before, and the started_by /
\* finished_by listeners are not notified; if it is false, the token is in the
\* waiting place after the call, the gate's transition has not fired, and the
\* listeners were notified once.
C28_GateReached ==
    [][last'.err = "" /\ ~raised
       => \A S \in GatePlaces :
             LET reached == SumOf(called', GateCallbacks(S)) - SumOf(called, GateCallbacks(S))
             IN  reached >= 1 =>
                    /\ reached = 1
                    /\ IF GateHolds(S, instances')
                       THEN /\ \A i \in Guards(S) : fired'[i] = fired[i] + 1
                            /\ marking'[WaitingOf(S)] = 0
                            /\ marking'[S] = marking[S]
                            /\ Notified(log', S) = 0
                       ELSE /\ \A i \in Guards(S) : fired'[i] = fired[i]
                            /\ marking'[WaitingOf(S)] = marking[WaitingOf(S)] + 1
                            /\ Notified(log', S) = 1]_vars

\* ------------------------------------------------------------------ behind a gate
\* how often what a gate guards has happened: behind a start gate the task body
\* or the order step has started, behind a finish gate the task or the order
\* step has finished
Behind(S) ==
    IF IsStartGate(S)
    THEN IF S[2] = "task" THEN {Called("task_started", S[3], 0, 0)}
         ELSE {Produced(Started(S[3])), Called("waiting_for_move", 0, 0, S[3]),
               Called("waiting_for_action", 0, 0, S[3]),
               Called("moved_to_location", 0, 0, S[3]),
               Called("action_executed", 0, 0, S[3])}
    ELSE IF S[2] = "task" THEN {Called("task_finished", S[3], 0, 0)}
         ELSE {Produced(Finished(S[3]))}
Passed(S) == \A i \in Guards(S) : \A n \in Behind(S) : n <= fired[i]

\* C29: every gate has a guard transition; the guard fires in a call at most
\* as often as the gate's "satisfied" place held tokens before the call or was
\* given tokens during it; and what the gate guards has happened at most as often
\* as the guard has fired: behind a start gate the task-started handler of the
\* task, or the started token, waiting-for-move and waiting-for-action of the
\* order step; behind a finish gate the task-finished handler of the task or
\* the finished token of the order step.
C29_NothingBeforeTheGate ==
    [][\A S \in GatePlaces :
          /\ Guards(S) # {}
          /\ \A i \in Guards(S) :
                /\ S \in net.pre[i]
                /\ fired'[i] - fired[i] <= marking[S] + TokensIn(log', S)
          /\ Passed(S)']_vars

\* a start gate was passed in the call that gave it its token from outside, and
\* the body behind it has started
C29_Witness ==
    \E S \in GatePlaces :
        /\ IsStartGate(S)
        /\ last.op = "update_instance"
        /\ TokensIn(log, S) = 1
        /\ \A i \in Guards(S) : fired[i] = 1
        /\ \E n \in Behind(S) : n = 1

\* ------------------------------------------------------------------ the events of a step
TransportSteps == {si \in Steps : IsTransportStep(si)}
\* the callbacks registered for an event of order step si, and how often they
\* have been called according to the counters cl
StepCallbacks(fn, si) ==
    {k \in 1..Len(net.g.cbs) : net.g.cbs[k].fn = fn /\ net.g.cbs[k].step = si}
Times(cl, fn, si) == SumOf(cl, StepCallbacks(fn, si))
\* callback j is called before callback k whenever both are called in a call
\* with the log l: on one transition in the order of registration, on two
\* transitions in the order in which they fired
CalledBefore(l, j, k) ==
    LET tj == net.g.cbs[j].t
        tk == net.g.cbs[k].t
    IN  IF tj = tk THEN j < k
        ELSE \A a, b \in DOMAIN l :
                (l[a].e = "fire" /\ l[a].t = tj /\ l[b].e = "fire" /\ l[b].t = tk) => a < b
Sequence ==
    <<"started_by", "waiting_for_move", "moved_to_location", "waiting_for_action",
      "action_executed", "finished_by">>

\* C30: for every transport order step, after every call in which a handler
\* was called: each of waiting_for_move, moved_to_location, waiting_for_action,
\* action_executed has been called at most once and no event more often than
\* the one before it in the sequence started_by (if the step has a start
\* gate), waiting_for_move, moved_to_location, waiting_for_action,
\* action_executed, finished_by (if it has a finish gate); two events of the
\* sequence called in the same call were called in that order; and once the
\* step's last transition has fired in calls that raised nothing, each of the
\* four has been called exactly once.
C30_StepEventOrder ==
    [][called' # called =>
       \A si \in TransportSteps :
          LET K == [e \in 1..6 |-> StepCallbacks(Sequence[e], si)]
              N == [e \in 1..6 |-> SumOf(called', K[e])]
              D == [e \in 1..6 |-> N[e] - SumOf(called, K[e])]
          IN  /\ \A e \in 2..5 : K[e] # {} /\ N[e] <= 1
              /\ \A e, f \in 1..6 :
                    (e < f /\ K[e] # {} /\ K[f] # {}) =>
                        /\ N[f] <= N[e]
                        /\ (D[e] > 0 /\ D[f] > 0) =>
                              \A j \in K[e] : \A k \in K[f] :
                                    (called'[j] > called[j] /\ called'[k] > called[k])
                                    => CalledBefore(log', j, k)
              /\ (~raised' /\ fired'[LastTransition(si)] >= 1) =>
                    \A e \in 2..5 : N[e] = 1]_vars

\* a transport step with both gates has gone through all six events
C30_Witness ==
    \E si \in TransportSteps :
        /\ ~raised
        /\ \A e \in 2..5 : Times(called, Sequence[e], si) = 1
        /\ \E e \in {1, 6} : Times(called, Sequence[e], si) = 1

\* ------------------------------------------------------------------ a task and its orders
OrdersOfTask(ti) == {oi \in Orders : net.g.orders[oi].task_context = ti}
FirstOrder(ti) == CHOOSE oi \in OrdersOfTask(ti) : \A o \in OrdersOfTask(ti) : oi <= o
LastOrder(ti) == CHOOSE oi \in OrdersOfTask(ti) : \A o \in OrdersOfTask(ti) : oi >= o
TaskCallbacks(fn, ti) ==
    {k \in 1..Len(net.g.cbs) :
        net.g.cbs[k].fn = fn /\ net.g.cbs[k].task = ti /\ net.g.cbs[k].step = 0}
OrderCallbacks(fn, oi) ==
    {k \in 1..Len(net.g.cbs) : net.g.cbs[k].fn = fn /\ net.g.cbs[k].order = oi}
\* where the listeners of the event were notified during a call with the log l
NotifiedAt(l, e, task, order) ==
    {i \in DOMAIN l : l[i].e = e /\ l[i].task = task /\ l[i].order = order}
\* every position of A precedes every position of B
Precede(A, B) == \A a \in A : \A b \in B : a < b

\* C31: for every task activation created by a task call that has orders,
\* after every call: order-started of its first order has been called at most
\* as often as task-started of the task, and when both are called in one call,
\* task-started is called first; task-finished of the task has been called at
\* most as often as order-finished of its last order, and when both are called
\* in one call, order-finished is called first (the order of the calls is that
\* of the notifications of the listeners).
C31_TaskAroundItsOrders ==
    [][called' # called =>
       \A ti \in CalledTasks :
          OrdersOfTask(ti) # {} =>
             LET ts == TaskCallbacks("task_started", ti)
                 tf == TaskCallbacks("task_finished", ti)
                 os == OrderCallbacks("order_started", FirstOrder(ti))
                 of == OrderCallbacks("order_finished", LastOrder(ti))
             IN  /\ ts # {} /\ tf # {} /\ os # {} /\ of # {}
                 /\ SumOf(called', os) <= SumOf(called', ts)
                 /\ SumOf(called', tf) <= SumOf(called', of)
                 /\ Precede(NotifiedAt(log', "task_started", ti, 0),
                            NotifiedAt(log', "order_started", 0, FirstOrder(ti)))
                 /\ Precede(NotifiedAt(log', "order_finished", 0, LastOrder(ti)),
                            NotifiedAt(log', "task_finished", ti, 0))]_vars

\* a called task has started and finished around its order
C31_Witness ==
    \E ti \in CalledTasks :
        /\ OrdersOfTask(ti) # {}
        /\ ~raised
        /\ SumOf(called, TaskCallbacks("task_finished", ti)) = 1
        /\ SumOf(called, OrderCallbacks("order_finished", LastOrder(ti))) >= 1
        /\ SumOf(called, OrderCallbacks("order_started", FirstOrder(ti))) = 1


\* ------------------------------------------------------------------ the loop re-entry and the timers
\* order step si has an entry of uuids_per_task under its current id
Indexed(si) ==
    Let(task_uuid[TaskOfStep(Ctx, si)], LAMBDA tu :
        tu \in DOMAIN uuids_per_task /\ step_uuid[si] \in DOMAIN uuids_per_task[tu].steps)

\* C32: the change of an order step's id on loop re-entry and the move of its
\* entry of uuids_per_task are atomic for every other event: whenever the
\* update_instance of a timer runs, every order step has an entry under its
\* current id.
C32_RelocationAtomic ==
    \A i \in DOMAIN timers : TimerRunning(i) => \A si \in Steps : Indexed(si)


\* ------------------------------------------------------------------ timers and start()
\* the timer of Time instance i has been started: it waits for its time, its
\* update_instance runs, or it has run
TimerStarted(i) == timers[i] \in {"armed", "running", "finished"}

\* C33: the timers of the Time instances are armed by start(), not earlier:
\* before start() has been called no timer has been started and no update_instance
\* of a timer runs or has run.
C33_TimersArmedByStart ==
    ~started => \A i \in DOMAIN timers : ~TimerStarted(i)


\* ------------------------------------------------------------------ the time stamp
\* C34: after a successful update_instance the "time" attribute of the instance
\* is the elapsed run time at the call, whatever keys new_values has: a "time"
\* key of new_values does not replace the stamp.
C34_TimeIsElapsedTime ==
    [][last'.op = "update_instance" /\ last'.ret =>
         \A now \in 0..MaxTime :
            UpdateInstance(last'.update.instance_name, last'.update.new_values, now)
               => instances'[last'.update.instance_name].time = Num(now)]_vars


\* ------------------------------------------------------------------ nested rule calls
\* the rules whose body is a call of another rule, and of a call of such a rule
\* the nested call as written and as substitute_parameter_in_expression returns it
Nesting == {name \in DOMAIN rules : rules[name].expressions[1].k = "call"}
NestedCall(call) == rules[call.name].expressions[1]
Substituted(call) ==
    substitute_parameter_in_expression(NestedCall(call),
                                       Subs(rules[call.name], call.params)).e
\* the value the parameter or literal named by an argument has in the call
ValueIn(call, key) ==
    Let(Subs(rules[call.name], call.params), LAMBDA subs :
    IF key.k = "str" /\ key.s \in DOMAIN subs THEN subs[key.s] ELSE key)

\* C35: the substitution of the parameters of a rule in a nested rule call keeps
\* the number and the order of the arguments of the nested call, also when two
\* of them are replaced by equal values: the i-th argument of the call returned
\* is the value of the i-th argument as written.
C35_NestedArgumentsKept ==
    last_eval.call.name \in Nesting =>
       /\ Len(Substituted(last_eval.call).params) = Len(NestedCall(last_eval.call).params)
       /\ \A i \in DOMAIN NestedCall(last_eval.call).params :
             Substituted(last_eval.call).params[i].key
                = ValueIn(last_eval.call, NestedCall(last_eval.call).params[i].key)


\* ------------------------------------------------------------------ the root task finishes
RootFinished == marking[task_finished_uuid] >= 1
\* nothing can happen any more: no transition is enabled and no event is awaited
Quiescent == EnabledTransitions(Ctx, State) = {} /\ awaited_events = <<>>

\* C36: for a process without loops to which every awaited event is eventually
\* supplied, the root task eventually finishes, and no marking is reached after
\* start() in which the root task has not finished, no transition is enabled and
\* no event is awaited.
C36_RootFinishes ==
    /\ <>RootFinished
    /\ [](started /\ Quiescent => RootFinished)

\* the root task of a process with a gated step has finished, every event
\* supplied
C36_Witness ==
    /\ cfg.gate # "none"
    /\ started /\ ~raised /\ Quiescent /\ RootFinished


\* ------------------------------------------------------------------ the end of a cascade
\* C37: every call of fire_event and update_instance terminates, its cascade of
\* firings, callbacks, gate evaluations and synthesized events having reached a
\* state with no enabled transition: whenever no call is running (after start()),
\* no transition of the net is enabled.
C37_CascadeRunsOut ==
    started => EnabledTransitions(Ctx, State) = {}


\* ------------------------------------------------------------------ tokens per place
\* C38: the net is 1-safe: in every marking reached by accepted events and
\* instance updates every place holds at most one token.
C38_OneSafe ==
    \A p \in net.g.places : marking[p] <= 1


\* ------------------------------------------------------------------ the order of completion events
\* the completion events of the steps in S, step by step, moved_to_location first
RECURSIVE InOrder(_, _)
InOrder(S, si) ==
    IF si > LastStep THEN <<>>
    ELSE (IF si \in S
          THEN <<StepEvent(si, "moved_to_location"), StepEvent(si, "action_executed")>>
          ELSE <<>>) \o InOrder(S, si + 1)
RECURSIVE ApplyAll(_, _)
ApplyAll(s, events) ==
    IF events = <<>> THEN s
    ELSE ApplyAll(logic_fire_event(Ctx, s, Head(events)), Tail(events))
\* the marking after start() and the completion events of the steps in S, in
\* the order of the steps
Reached(S) == ApplyAll(start(Ctx, InitialState(Ctx)), InOrder(S, 1)).marking

\* C39: the marking reached when all completion events of the pickup steps of a
\* transport order have been applied is the same for every order in which they
\* are applied, across the steps and within a step; the same holds for the
\* delivery steps, applied after or between the pickup events.
C39_CompletionEventsCommute ==
    started =>
       \A oi \in TransportOrders :
          /\ consumed = CompletionEvents(Pickups(oi)) => marking = Reached(Pickups(oi))
          /\ consumed = CompletionEvents(Pickups(oi) \cup Deliveries(oi))
                => marking = Reached(Pickups(oi) \cup Deliveries(oi))

\* all completion events of two pickup steps have been applied, the last of
\* them a moved_to_location that came after the action_executed of its step
C39_Witness ==
    /\ started /\ ~raised
    /\ \E oi \in TransportOrders :
          /\ Cardinality(Pickups(oi)) = 2
          /\ consumed = CompletionEvents(Pickups(oi))
    /\ last.status = "moved_to_location"

====
